---- MODULE Spec2Model ----
(***************************************************************************)
(* Verification model of the meddaily content-to-video pipeline            *)
(* (video_generator_premium.py, video_generator_lite.py,                   *)
(* video_generator.py) and of the daily workflow that drives it (main.py,  *)
(* database.py).                                                           *)
(*                                                                         *)
(* Durations are whole seconds.  Strings are sequences of one-character    *)
(* strings.  A file system is a function from paths to file contents; the  *)
(* external tools (edge-tts / gTTS, ffprobe, ffmpeg, the YouTube and       *)
(* Telegram clients) are the environment and are nondeterministic.         *)
(*                                                                         *)
(* Every method of MedicalDatabase opens a connection of its own and runs  *)
(* its SELECTs outside a transaction, so each statement of a method is a   *)
(* step of its own, and another process on the same database file (the     *)
(* generate-topics command, the topic ingestion, a second run) may commit  *)
(* between two of them (SpecCycles, SpecShared, SpecSharedRuns).           *)
(***************************************************************************)
EXTENDS Integers, Sequences, FiniteSets, TLC

VARIABLES
    gen,            \* generator class whose create_video runs
    pc,             \* control point inside create_video
    topic,          \* create_video argument
    subtopic,       \* create_video argument
    output_path,    \* local output_path of create_video (NoPath before it is built)
    slides,         \* local list `slides` / `slides_with_audio`
    slide_videos,   \* local list `slide_videos` / `video_segments`
    listing,        \* lines written so far to the concat list file
    list_path,      \* path of the concat list file (NoPath before it is created)
    fs,             \* the file system: path -> content
    tmpCount,       \* number of names handed out by tempfile.NamedTemporaryFile
    log,            \* messages printed by the except handlers of the generators
    calls,          \* external encoder invocations of the run, in order
    raised,         \* exception that left create_video ("none" when there is none)
    faults,         \* encoder and probe failures the environment has injected
    run,            \* number of the create_video run (tags the files it writes)
    ops,            \* render, synthesis and probe operations of the run, in order
    content,        \* create_video argument: the lesson record
    env,            \* what the environment of this behaviour may do
    wpc,            \* control point inside run_daily_workflow
    results,        \* the results dict of run_daily_workflow
    wf,             \* locals of run_daily_workflow and of the database method it is in
    db,             \* the sqlite database
    produced,       \* the file at video_path at the moment create_video returned
    createCalls,    \* create_video invocations made by the workflow run
    selected,       \* subjects of the successful workflow runs, in order
    dbAtStart,      \* the database as run_daily_workflow found it
    status,         \* <<code>> once main() has called sys.exit(code), <<>> before
    arg,            \* argument of a function called on its own
    ret,            \* what that call returned (what it has read, while it runs)
    other           \* locals of the check_and_start_new_cycle another process is in

vars == <<gen, pc, topic, subtopic, output_path, slides, slide_videos, listing,
          list_path, fs, tmpCount, log, calls, raised, faults, run, ops,
          content, env, wpc, results, wf, db, produced, createCalls, selected,
          dbAtStart, status, arg, ret, other>>

videoVars == <<gen, pc, topic, subtopic, output_path, slides, slide_videos,
               listing, list_path, fs, tmpCount, log, calls, raised, faults, run, ops>>

wfVars == <<wpc, results, wf, db, produced, createCalls, selected, dbAtStart, status>>

callVars == <<arg, ret, other>>

-----------------------------------------------------------------------------
(* Bounds of the model *)

\* longest topic / subtopic string enumerated for the filename functions
MaxNameLen == 2
\* failures the environment injects into the external encoder and the
\* duration probe, per behaviour
MaxFaults == 1
\* longest list of questions in an enumerated AI response
MaxQuestions == 4
\* longest text handed to _wrap_text, in characters
MaxTextLen == 5
\* largest max_width handed to _wrap_text, in pixels
MaxWidth == 4
\* longest answer option drawn, in characters
MaxOptionLen == 45
\* create_video runs over one working directory
MaxRuns == 2
\* run_daily_workflow runs over one database
MaxWorkflowRuns == 4
\* rows of the topics table
MaxTopics == 2
\* highest cycle a subject is taken to
MaxCycle == 2
\* largest min_topics check_and_generate_topics is called with
MaxMinTopics == 2
\* rows of the cases table in the direct calls of add_case
MaxCases == 1

(* Program constants *)

\* video_generator.py:88  "Ensure video is under 60 seconds"
DurationCap == 59
\* video_generator_premium.py:48  filename[:50]
PremiumNameLimit == 50
\* video_generator_lite.py:42  safe_topic[:30]
LiteNameLimit == 30
\* video_generator_lite.py:105,124 and video_generator.py:79
LiteDefaultDuration == 3
\* video_generator_premium.py:155  probed duration + 1.0
PremiumBuffer == 1

None == "None"

\* the outcome of a call: not returned yet, returned a value, or raised
NoReturn == [done |-> FALSE, raised |-> None, value |-> None]

Returned(v) == [done |-> TRUE, raised |-> None, value |-> v]

Raised(e) == [done |-> TRUE, raised |-> e, value |-> None]
\* the call is between two of its statements; locals holds what it has read
Running(locals) == [done |-> FALSE, raised |-> "running", value |-> locals]
NoPath == [dir |-> "", name |-> <<>>]

-----------------------------------------------------------------------------
(* Strings *)

Letters == {"a"}
Digits == {"7"}
\* the characters topic and subtopic strings are drawn from
Chars == Letters \cup Digits \cup {" ", "-", "/"}

\* the letters of the suffix "_ENHANCED" of the enhanced generator's filename
SuffixLetters == {"E", "N", "H", "A", "C", "D"}

\* str.isalnum() on one character
IsAlnum(c) == c \in Letters \cup Digits \cup SuffixLetters

\* c.isalnum() or c in (' ', '-', '_')
IsSafeChar(c) == IsAlnum(c) \/ c \in {" ", "-", "_"}

RECURSIVE FilterSafe(_)
\* "".join(c for c in s if c.isalnum() or c in (' ', '-', '_'))
FilterSafe(s) ==
    IF s = <<>> THEN <<>>
    ELSE IF IsSafeChar(Head(s)) THEN <<Head(s)>> \o FilterSafe(Tail(s))
         ELSE FilterSafe(Tail(s))

RECURSIVE LStrip(_)
LStrip(s) == IF s # <<>> /\ Head(s) = " " THEN LStrip(Tail(s)) ELSE s

RECURSIVE RStrip(_)
RStrip(s) ==
    IF s # <<>> /\ s[Len(s)] = " " THEN RStrip(SubSeq(s, 1, Len(s) - 1)) ELSE s

\* str.strip()
Strip(s) == LStrip(RStrip(s))

Min(a, b) == IF a < b THEN a ELSE b

\* s[:n]
Take(s, n) == SubSeq(s, 1, IF Len(s) < n THEN Len(s) ELSE n)

\* s.replace(" ", "_")
ReplaceSpaces(s) == [i \in 1..Len(s) |-> IF s[i] = " " THEN "_" ELSE s[i]]

\* "".join(c for c in s if c.isalnum() or c in (' ', '-', '_')).strip()
Sanitize(s) == Strip(FilterSafe(s))

\* PremiumVideoGenerator.create_video: the default filename
PremiumFilename(t, s) ==
    Take(ReplaceSpaces(t \o <<"_">> \o s), PremiumNameLimit) \o <<".mp4">>

\* LightweightVideoGenerator.create_video: the default filename
LiteFilename(t, s) ==
    Take(Sanitize(t), LiteNameLimit) \o <<"_">> \o Take(Sanitize(s), LiteNameLimit)
        \o <<".mp4">>

\* VideoGenerator.create_video: the default filename
BaseFilename(t, s) == Sanitize(t) \o <<"_">> \o Sanitize(s) \o <<".mp4">>

\* EnhancedVideoGenerator.create_video: the default filename
EnhancedFilename(t, s) ==
    Take(Sanitize(t), LiteNameLimit) \o <<"_">> \o Take(Sanitize(s), LiteNameLimit)
        \o <<"_", "E", "N", "H", "A", "N", "C", "E", "D", ".mp4">>

DefaultFilename(g, t, s) ==
    CASE g = "premium" -> PremiumFilename(t, s)
      [] g = "lite" -> LiteFilename(t, s)
      [] g = "enhanced" -> EnhancedFilename(t, s)
      [] OTHER -> BaseFilename(t, s)

\* os.path.join(d, name): an absolute name discards the directory
PathJoin(d, name) ==
    IF name # <<>> /\ Head(name) = "/" THEN [dir |-> "", name |-> name]
    ELSE [dir |-> d, name |-> name]

\* os.path.join(self.output_dir, filename)
OutputPath(g, t, s) == PathJoin("videos", DefaultFilename(g, t, s))

-----------------------------------------------------------------------------
(* Files *)

\* what a path holds; one record shape for every kind of file
File(k, r, i, d, a, tl) ==
    [k |-> k, run |-> r, slide |-> i, dur |-> d, aud |-> a, tl |-> tl]

\* result of looking at a path that holds nothing
AbsentFile == File("absent", 0, 0, 0, "", <<>>)

\* the file at path p (os.path.exists(p) is Exists(f, p))
Read(f, p) == IF p \in DOMAIN f THEN f[p] ELSE AbsentFile

Exists(f, p) == p \in DOMAIN f

\* open(p, "w") / a tool writing its output to p
Write(f, p, c) == [q \in DOMAIN f \cup {p} |-> IF q = p THEN c ELSE f[q]]

\* os.remove on every path of ps that exists
Remove(f, ps) == [q \in DOMAIN f \ ps |-> f[q]]

\* a file ffmpeg / ffprobe can decode as audio
IsAudio(c) == c.k \in {"speech", "silence"}

\* one entry of a video's timeline: the content of one segment
Clip(i, d, a, r) == [slide |-> i, dur |-> d, aud |-> a, run |-> r]

RECURSIVE SumDur(_)
\* total duration of a timeline
SumDur(tl) == IF tl = <<>> THEN 0 ELSE Head(tl).dur + SumDur(Tail(tl))

\* tempfile.NamedTemporaryFile(delete=False, suffix=...).name: a fresh name
TempPath(n, suffix) == [dir |-> "tmp", name |-> <<"tmp", ToString(n), suffix>>]

\* os.path.join(temp_dir, name) with temp_dir = "temp_slides"
SlidePath(name) == [dir |-> "temp_slides", name |-> <<name>>]

-----------------------------------------------------------------------------
(* Slide templates *)

\* the classes that have a create_video: PremiumVideoGenerator,
\* LightweightVideoGenerator, EnhancedVideoGenerator, VideoGenerator
Generators == {"premium", "lite", "enhanced", "base"}

\* PremiumVideoGenerator.create_video: the six _gen_slide calls
PremiumTemplate ==
    << [name |-> "slide1", duration |-> 5,  narrated |-> TRUE],
       [name |-> "slide2", duration |-> 10, narrated |-> TRUE],
       [name |-> "slide3", duration |-> 10, narrated |-> TRUE],
       [name |-> "slide4", duration |-> 5,  narrated |-> FALSE],
       [name |-> "slide5", duration |-> 10, narrated |-> TRUE],
       [name |-> "slide6", duration |-> 5,  narrated |-> TRUE] >>

\* LightweightVideoGenerator.create_video / VideoGenerator.create_video:
\* case, MCQ, thinking and answer slide, each with a narration
LiteTemplate == << "case", "mcq", "thinking", "answer" >>

PremiumImg(i) == SlidePath(PremiumTemplate[i].name \o ".png")

\* name.replace(".png", ".mp3")
PremiumAudio(i) == SlidePath(PremiumTemplate[i].name \o ".mp3")

\* the segment name without the slide's index in it
PremiumPartUnindexed(i) == SlidePath("part.mp4")

\* os.path.join("temp_slides", f"part_{i}.mp4") for the slide at position i (from 1)
PremiumPart(i) == SlidePath("part_" \o ToString(i - 1) \o ".mp4")

PremiumPartsFile == SlidePath("parts.txt")

\* one element of `slides`
Slide(img, audio, d) == [img |-> img, audio |-> audio, duration |-> d]

\* print(f"{msg}: {e}") in an except handler, e raised by `cause`
LogEntry(msg, i, cause) == [msg |-> msg, slide |-> i, cause |-> cause]

\* one external invocation: what it was given at the moment it ran (audioFile
\* is what the audio input path held), whether it succeeded, and the duration
\* of what it wrote
Call(op, i, img, audio, audioFile, d, out, ok, outDur, lst) ==
    [op |-> op, slide |-> i, img |-> img, audio |-> audio, audioFile |-> audioFile,
     dur |-> d, out |-> out, ok |-> ok, outDur |-> outDur, lst |-> lst,
     cmd |-> None]

\* the arguments of an encode command other than its input paths, its -t
\* duration and its output path
EncodeCmd(inputs, vcodec, tune, acodec, abitrate, pix_fmt, shortest, vf) ==
    [inputs |-> inputs, vcodec |-> vcodec, tune |-> tune, acodec |-> acodec,
     abitrate |-> abitrate, pix_fmt |-> pix_fmt, shortest |-> shortest, vf |-> vf]

\* _assemble_video: the command that encodes a slide
PremiumEncodeCmd ==
    EncodeCmd(<<"image", "audio">>, "libx264", None, "aac", "192k", "yuv420p", FALSE,
              "scale=1080:1920:force_original_aspect_ratio=decrease,pad=1080:1920:(ow-iw)/2:(oh-ih)/2")

\* _combine_slides_ffmpeg: the command that encodes a slide, with its audio
\* or from the image alone
LiteEncodeCmd(hasAudio) ==
    IF hasAudio
    THEN EncodeCmd(<<"image", "audio">>, "libx264", "stillimage", "aac", "192k",
                   "yuv420p", TRUE, "fps=30")
    ELSE EncodeCmd(<<"image">>, "libx264", "stillimage", None, None,
                   "yuv420p", FALSE, "fps=30")

-----------------------------------------------------------------------------
(* Fonts and the operations of a run *)

\* the font files the generators name
FontFiles == {"DejaVuSans", "LiberationSans-Regular", "DejaVuSans-Bold", "arial"}

\* _gen_slide: font_paths, in the order they are tried
PremiumFontPaths == <<"DejaVuSans", "LiberationSans-Regular", "DejaVuSans-Bold">>

\* a font installation: every file is usable, missing, or present but not a
\* font ImageFont.truetype can load
FontStates == {"usable", "missing", "corrupt"}

AllFontsUsable == [p \in FontFiles |-> "usable"]

RECURSIVE FirstExisting(_, _)
\* next((p for p in font_paths if os.path.exists(p)), None)
FirstExisting(fonts, paths) ==
    IF paths = <<>> THEN None
    ELSE IF fonts[Head(paths)] # "missing" THEN Head(paths)
         ELSE FirstExisting(fonts, Tail(paths))

PremiumFontPath(fonts) == FirstExisting(fonts, PremiumFontPaths)

\* ImageFont.truetype(p, size) returns a font
FontLoads(fonts, p) == fonts[p] = "usable"

\* the font _gen_slide draws every element with
PremiumFont(fonts) ==
    IF PremiumFontPath(fonts) # None THEN PremiumFontPath(fonts) ELSE "default"

\* the files the try block of slide i of the lite and base generators loads
LiteSlideFonts(i) ==
    IF LiteTemplate[i] = "thinking" THEN {"DejaVuSans-Bold"}
    ELSE {"DejaVuSans-Bold", "DejaVuSans"}

\* the files the try block of slide i of the enhanced generator loads
EnhancedSlideFonts(i) == {"arial"}

\* the files the try block of slide i of generator g loads
SlideFonts(g, i) == IF g = "enhanced" THEN EnhancedSlideFonts(i) ELSE LiteSlideFonts(i)

\* the fonts slide i is drawn with: the requested ones, or load_default() for
\* every element when any truetype call raised
LiteFonts(g, fonts, i) ==
    IF \A p \in SlideFonts(g, i) : FontLoads(fonts, p) THEN SlideFonts(g, i)
    ELSE {"default"}

\* one operation of a run other than an encoder call: render, tts, probe or
\* silence (the ffmpeg anullsrc call) for slide i
Op(op, i, ok, d, fonts) == [op |-> op, slide |-> i, ok |-> ok, dur |-> d, fonts |-> fonts]

-----------------------------------------------------------------------------
(* Lesson content *)

\* the option labels the prompt asks for
Labels == {"A", "B", "C", "D"}

\* one question: a text stands for its number of characters
Mcq(question, options) == [question |-> question, options |-> options]

\* the options A, B, C, D, each n characters long
FourOptions(n) == [l \in Labels |-> n]

\* the keys of the answers object for questions 1 .. 5
AnswerKeys == {"1", "2", "3", "4", "5"}

\* the dict json.loads gives for a response with every required key
Lesson(case_text, case_based, independent, answers, mnemonic) ==
    [case_text |-> case_text, case_based_mcqs |-> case_based,
     independent_mcqs |-> independent, answers |-> answers, mnemonic |-> mnemonic]

\* a lesson that satisfies the input contract: case text of c characters,
\* every option o characters
ContractLesson(c, o) ==
    Lesson(c, << Mcq(20, FourOptions(o)), Mcq(20, FourOptions(o)), Mcq(20, FourOptions(o)) >>,
           << Mcq(20, FourOptions(o)), Mcq(20, FourOptions(o)) >>,
           [k \in AnswerKeys |-> "B"], 8)

\* create_video has not been given a lesson yet
NoContent == Lesson(0, <<>>, <<>>, [k \in {} |-> "A"], 0)

-----------------------------------------------------------------------------
(* ai_generator.py: MedicalContentGenerator._parse_ai_response *)

\* required_keys
RequiredKeys == {"case_text", "case_based_mcqs", "independent_mcqs", "answers", "mnemonic"}

\* the text the model answered with: whether json.loads accepts it, the keys
\* of the object, and the values under them
AiResponse(json, keys, data) == [json |-> json, keys |-> keys, data |-> data]

\* _parse_ai_response: json.loads, the required keys, the two list lengths
ParseAiResponse(r) ==
    IF ~r.json THEN Raised("JSONDecodeError")
    ELSE IF ~(RequiredKeys \subseteq r.keys) THEN Raised("ValueError")
    ELSE IF Len(r.data.case_based_mcqs) # 3 THEN Raised("ValueError")
    ELSE IF Len(r.data.independent_mcqs) # 2 THEN Raised("ValueError")
    ELSE Returned(r.data)

\* option objects with a label missing and with a label too many
ThreeOptions(n) == [l \in {"A", "B", "C"} |-> n]

FiveOptions(n) == [l \in Labels \cup {"E"} |-> n]

\* a list of n questions with the same options
Questions(n, options) == [j \in 1..n |-> Mcq(20, options)]

\* answers objects: the five keys; one missing; one for a sixth question; a
\* label no question has
AnswerShapes ==
    { [k \in AnswerKeys |-> "B"], [k \in AnswerKeys \ {"5"} |-> "B"],
      [k \in AnswerKeys \cup {"6"} |-> "B"], [k \in AnswerKeys |-> "E"] }

\* the responses the parser is applied to
AiResponses ==
    { AiResponse(j, ks, Lesson(40, Questions(nc, o), Questions(ni, o), a, 8)) :
        j \in BOOLEAN, ks \in {RequiredKeys, RequiredKeys \ {"mnemonic"}},
        nc \in 0..MaxQuestions, ni \in 0..MaxQuestions,
        o \in {FourOptions(10), ThreeOptions(10), FiveOptions(10)},
        a \in AnswerShapes }

\* _parse_ai_response applied to the response in arg
ParseResponse ==
    /\ ~ret.done
    /\ arg \in AiResponses
    /\ ret' = ParseAiResponse(arg)
    /\ UNCHANGED <<arg, other, content, env, videoVars, wfVars>>

-----------------------------------------------------------------------------
(* PremiumVideoGenerator._wrap_text *)

RECURSIVE SplitLoop(_, _, _)
\* the words of text, given the word begun and the words ended before text
SplitLoop(text, word, words) ==
    LET ended == IF word = <<>> THEN words ELSE Append(words, word)
    IN IF text = <<>> THEN ended
       ELSE IF Head(text) = " " THEN SplitLoop(Tail(text), <<>>, ended)
       ELSE SplitLoop(Tail(text), Append(word, Head(text)), words)

\* text.split(): the maximal runs of characters other than spaces
Split(text) == SplitLoop(text, <<>>, <<>>)

RECURSIVE JoinSpace(_)
\* " ".join(ws)
JoinSpace(ws) ==
    IF ws = <<>> THEN <<>>
    ELSE IF Len(ws) = 1 THEN Head(ws)
    ELSE Head(ws) \o <<" ">> \o JoinSpace(Tail(ws))

\* font.getlength(s) for a font whose characters are all font.w pixels wide
GetLength(font, s) == Len(s) * font.w

RECURSIVE WrapLoop(_, _, _, _, _)
\* the loop of _wrap_text over the words left, then the final append
WrapLoop(words, current_line, lines, font, max_width) ==
    IF words = <<>> THEN Append(lines, JoinSpace(current_line))
    ELSE LET word == Head(words)
             test_line == JoinSpace(Append(current_line, word))
         IN IF GetLength(font, test_line) <= max_width
            THEN WrapLoop(Tail(words), Append(current_line, word), lines, font, max_width)
            ELSE WrapLoop(Tail(words), <<word>>, Append(lines, JoinSpace(current_line)),
                          font, max_width)

\* _wrap_text(text, font, max_width)
WrapText(text, font, max_width) == WrapLoop(Split(text), <<>>, <<>>, font, max_width)

\* the texts, fonts and widths _wrap_text is applied to
WrapArgs ==
    { [text |-> t, font |-> [w |-> w], max_width |-> m] :
        t \in UNION {[1..n -> {"a", " "}] : n \in 0..MaxTextLen},
        w \in {1, 2}, m \in 1..MaxWidth }

\* _wrap_text applied to the arguments in arg
WrapCall ==
    /\ ~ret.done
    /\ arg \in WrapArgs
    /\ ret' = Returned(WrapText(arg.text, arg.font, arg.max_width))
    /\ UNCHANGED <<arg, other, content, env, videoVars, wfVars>>

-----------------------------------------------------------------------------
(* Answer options on the MCQ slide *)

\* the generators that draw answer options
OptionGenerators == {"premium", "lite", "base", "enhanced"}

\* the generators that compare len(opt_text) with a budget
HasOptionBudget(g) == g \in {"lite", "base", "enhanced"}

\* the length above which opt_text is cut
OptionBudget(g) == IF g = "enhanced" THEN 35 ELSE 40

\* the length of the prefix kept of a cut opt_text
OptionKeep(g) == IF g = "enhanced" THEN 32 ELSE 37

Ellipsis == <<".", ".", ".">>

\* the label drawn in front of an option
OptionLabel(g, k) ==
    IF g = "premium" THEN <<k, ")", " ">> ELSE <<" ", " ", k, ")", " ">>

\* the width of the wrapped elements of a premium slide: self.width - 160
PremiumWrapWidth == 920

\* `if y > 1850: break` in front of an option (1800 in the enhanced generator)
OptionGuard(g) == IF g = "enhanced" THEN 1800 ELSE 1850

\* the lines drawn for option k with text opt_text when the loop over the
\* options gets to it at y: none in the lite, base and enhanced generators
\* when y is past the guard (the loop breaks, the option is not read)
DrawOption(g, k, opt_text, font, y) ==
    IF g = "premium"
    THEN WrapText(OptionLabel(g, k) \o opt_text, font, PremiumWrapWidth)
    ELSE IF y > OptionGuard(g) THEN <<>>
    ELSE IF Len(opt_text) > OptionBudget(g)
         THEN <<OptionLabel(g, k) \o SubSeq(opt_text, 1, OptionKeep(g)) \o Ellipsis>>
         ELSE <<OptionLabel(g, k) \o opt_text>>

\* y of an option: under both guards, between them, past both
OptionHeights == {1775, 1840, 1885}

\* option texts of every length, the characters of which tell their places
OptionTexts ==
    { [i \in 1..n |-> IF i % k = 0 THEN "y" ELSE "x"] : n \in 0..MaxOptionLen, k \in {2, 3} }

OptionArgs ==
    { [gen |-> g, key |-> k, text |-> t, font |-> [w |-> w], y |-> y] :
        g \in OptionGenerators, k \in {"A", "D"}, t \in OptionTexts, w \in {1, 30},
        y \in OptionHeights }

\* one option drawn on the MCQ slide
DrawOptionCall ==
    /\ ~ret.done
    /\ arg \in OptionArgs
    /\ ret' = Returned(DrawOption(arg.gen, arg.key, arg.text, arg.font, arg.y))
    /\ UNCHANGED <<arg, other, content, env, videoVars, wfVars>>

-----------------------------------------------------------------------------
(* create_video of PremiumVideoGenerator *)

\* create_video up to the first _gen_slide call
PremiumStart ==
    /\ pc = "idle" /\ gen = "premium" /\ wpc \in {"direct", "video"}
    /\ output_path' = OutputPath("premium", topic, subtopic)
    /\ slides' = <<>>
    /\ pc' = "gen"
    /\ UNCHANGED <<gen, topic, subtopic, slide_videos, listing, list_path, fs,
                   tmpCount, log, calls, raised, faults, run, ops>>
    /\ UNCHANGED <<env, content, wfVars, callVars>>

\* a slide count that depends on the lesson: the last slide is left out when
\* the case text is empty
AfterGenByContent(i, n) ==
    IF i = n \/ (content.case_text = 0 /\ i = n - 1) THEN "encode" ELSE "gen"

\* create_video going from the last slide straight to the concatenation
AfterGenConcatEarly(i, n) == IF i = n THEN "concat" ELSE "gen"

\* the position create_video moves to once slide i is generated
AfterGen(i, n) == IF i = n THEN "encode" ELSE "gen"

\* the lesson fields create_video reads while it builds slide i: a missing
\* option label or answer key raises KeyError
PremiumContentOk(i, c) ==
    CASE i = 3 -> /\ Len(c.case_based_mcqs) >= 1
                  /\ Labels \subseteq DOMAIN c.case_based_mcqs[1].options
      [] i = 5 -> /\ Len(c.case_based_mcqs) >= 1
                  /\ "1" \in DOMAIN c.answers
                  /\ c.answers["1"] \in DOMAIN c.case_based_mcqs[1].options
      [] OTHER -> TRUE

\* _gen_slide gets as far as img.save: the lesson has the fields of the slide
\* and ImageFont.truetype can load the chosen font file
PremiumRenders(i) ==
    /\ PremiumContentOk(i, content)
    /\ PremiumFontPath(env.fonts) # None => FontLoads(env.fonts, PremiumFontPath(env.fonts))

\* the render operation of premium slide i
PremiumRenderOp(i) == Op("render", i, TRUE, 0, {PremiumFont(env.fonts)})

\* _gen_slide for a slide with audio_text, edge-tts succeeding: the audio is
\* written and probed
PremiumGenNarrated ==
    /\ pc = "gen" /\ gen = "premium"
    /\ LET i == Len(slides) + 1
           t == PremiumTemplate[i]
           withImg == Write(fs, PremiumImg(i), File("img", run, i, 0, "", <<>>))
           done == ops \o <<PremiumRenderOp(i), Op("tts", i, TRUE, 0, {})>>
       IN /\ t.narrated
          /\ PremiumRenders(i)
          /\ \E d \in env.voice :
               /\ fs' = Write(withImg, PremiumAudio(i), File("speech", run, i, d, "", <<>>))
               /\ \/ \* ffprobe prints the duration
                     /\ slides' = Append(slides,
                                     Slide(PremiumImg(i), PremiumAudio(i), d + PremiumBuffer))
                     /\ ops' = Append(done, Op("probe", i, TRUE, d, {}))
                     /\ UNCHANGED <<log, faults>>
                  \/ \* ffprobe prints nothing: result.stdout.strip() is empty
                     /\ faults < env.faults
                     /\ faults' = faults + 1
                     /\ slides' = Append(slides,
                                     Slide(PremiumImg(i), PremiumAudio(i), t.duration))
                     /\ ops' = Append(done, Op("probe", i, FALSE, d, {}))
                     /\ UNCHANGED log
                  \/ \* ffprobe cannot be run, or float() rejects its output
                     /\ faults < env.faults
                     /\ faults' = faults + 1
                     /\ slides' = Append(slides,
                                     Slide(PremiumImg(i), PremiumAudio(i), t.duration))
                     /\ ops' = Append(done, Op("probe", i, FALSE, d, {}))
                     /\ log' = log \cup {LogEntry("Error generating voice", i, "probe")}
          /\ pc' = AfterGen(i, Len(PremiumTemplate))
    /\ UNCHANGED <<gen, topic, subtopic, output_path, slide_videos, listing,
                   list_path, tmpCount, calls, raised, run>>
    /\ UNCHANGED <<env, content, wfVars, callVars>>

\* _gen_slide for a slide with audio_text, edge-tts raising: before it opened
\* the audio file (the path keeps what it held) or after (the file is cut short)
PremiumGenTtsFails ==
    /\ pc = "gen" /\ gen = "premium" /\ env.ttsFail
    /\ LET i == Len(slides) + 1
           t == PremiumTemplate[i]
           withImg == Write(fs, PremiumImg(i), File("img", run, i, 0, "", <<>>))
       IN /\ t.narrated
          /\ PremiumRenders(i)
          /\ \/ fs' = withImg
             \/ fs' = Write(withImg, PremiumAudio(i), File("junk", run, i, 0, "", <<>>))
          /\ log' = log \cup {LogEntry("Error generating voice", i, "tts")}
          /\ ops' = ops \o <<PremiumRenderOp(i), Op("tts", i, FALSE, 0, {})>>
          /\ slides' = Append(slides, Slide(PremiumImg(i), PremiumAudio(i), t.duration))
          /\ pc' = AfterGen(i, Len(PremiumTemplate))
    /\ UNCHANGED <<gen, topic, subtopic, output_path, slide_videos, listing,
                   list_path, tmpCount, calls, raised, faults, run>>
    /\ UNCHANGED <<env, content, wfVars, callVars>>

\* _gen_slide for a slide without audio_text: ffmpeg writes a silent track of
\* the slide's duration; its exit status is not looked at; subprocess.run
\* raises when ffmpeg cannot be started, and nothing is around it
PremiumGenSilent ==
    /\ pc = "gen" /\ gen = "premium"
    /\ LET i == Len(slides) + 1
           t == PremiumTemplate[i]
           withImg == Write(fs, PremiumImg(i), File("img", run, i, 0, "", <<>>))
           returns == /\ slides' = Append(slides,
                                       Slide(PremiumImg(i), PremiumAudio(i), t.duration))
                      /\ pc' = AfterGen(i, Len(PremiumTemplate))
                      /\ UNCHANGED raised
       IN /\ ~t.narrated
          /\ PremiumRenders(i)
          /\ \/ /\ fs' = Write(withImg, PremiumAudio(i),
                               File("silence", run, i, t.duration, "", <<>>))
                /\ ops' = ops \o <<PremiumRenderOp(i), Op("silence", i, TRUE, t.duration, {})>>
                /\ UNCHANGED faults
                /\ returns
             \/ /\ faults < env.faults
                /\ faults' = faults + 1
                /\ fs' = withImg
                /\ ops' = ops \o <<PremiumRenderOp(i), Op("silence", i, FALSE, t.duration, {})>>
                /\ \/ returns
                   \/ /\ pc' = "raised"
                      /\ raised' = "spawn"
                      /\ UNCHANGED slides
    /\ UNCHANGED <<gen, topic, subtopic, output_path, slide_videos, listing,
                   list_path, tmpCount, log, calls, run>>
    /\ UNCHANGED <<env, content, wfVars, callVars>>

\* building slide i raises: the lesson lacks a field (KeyError), truetype
\* rejects the font file that exists (OSError), or img.save(img_path) fails;
\* no try is around any of them
PremiumGenRaises ==
    /\ pc = "gen" /\ gen = "premium"
    /\ LET i == Len(slides) + 1
       IN \/ ~PremiumContentOk(i, content) /\ raised' = "content"
          \/ PremiumContentOk(i, content) /\ ~PremiumRenders(i) /\ raised' = "font"
          \/ PremiumRenders(i) /\ env.renderFail /\ raised' = "render"
    /\ pc' = "raised"
    /\ UNCHANGED <<gen, topic, subtopic, output_path, slides, slide_videos, listing,
                   list_path, fs, tmpCount, log, calls, faults, run, ops>>
    /\ UNCHANGED <<env, content, wfVars, callVars>>

\* ffmpeg -loop 1 -i img -i audio -t duration out: it writes the segment when
\* it can read both inputs and is not failed by the environment
EncodeSucceeds(f, s, envOk) ==
    /\ envOk
    /\ Read(f, s.img).k = "img"
    /\ IsAudio(Read(f, s.audio))

\* _assemble_video: one turn of the loop over slides; subprocess.run has no
\* check=True, so the loop goes on whatever ffmpeg's exit status; it raises
\* when ffmpeg cannot be started
PremiumEncode ==
    /\ pc = "encode" /\ gen = "premium"
    /\ LET i == Len(slide_videos) + 1
           s == slides[i]
           v_part == PremiumPart(i)
       IN \E envOk \in BOOLEAN, started \in BOOLEAN :
            /\ envOk => started
            /\ envOk \/ faults < env.faults
            /\ faults' = IF envOk THEN faults ELSE faults + 1
            /\ IF started
               THEN /\ slide_videos' = Append(slide_videos, v_part)
                    /\ pc' = IF i = Len(slides) THEN "concat" ELSE "encode"
                    /\ UNCHANGED raised
               ELSE /\ pc' = "raised"
                    /\ raised' = "spawn"
                    /\ UNCHANGED slide_videos
            /\ LET ok == EncodeSucceeds(fs, s, envOk)
               IN /\ fs' = IF ok
                           THEN Write(fs, v_part,
                                      File("seg", run, i, s.duration,
                                           Read(fs, s.audio).k, <<>>))
                           ELSE fs
                  /\ calls' = Append(calls,
                                 [Call("encode", i, s.img, s.audio, Read(fs, s.audio),
                                       s.duration, v_part, ok,
                                       IF ok THEN s.duration ELSE 0, <<>>)
                                    EXCEPT !.cmd = PremiumEncodeCmd])
    /\ UNCHANGED <<gen, topic, subtopic, output_path, slides, listing, list_path,
                   tmpCount, log, run, ops>>
    /\ UNCHANGED <<env, content, wfVars, callVars>>

RECURSIVE ReadablePrefix(_, _)
\* the concat demuxer plays the listed files in order until one cannot be opened
ReadablePrefix(f, lst) ==
    IF lst = <<>> \/ Read(f, Head(lst)).k # "seg" THEN <<>>
    ELSE <<Head(lst)>> \o ReadablePrefix(f, Tail(lst))

\* the timeline ffmpeg -f concat -c copy produces from the listed files
ConcatTimeline(f, lst) ==
    LET pre == ReadablePrefix(f, lst)
    IN [j \in 1..Len(pre) |->
            Clip(f[pre[j]].slide, f[pre[j]].dur, f[pre[j]].aud, f[pre[j]].run)]

\* the file ffmpeg -f concat -c copy leaves at `out`: nothing is written when
\* the first listed file cannot be opened
ConcatOutput(f, lst, out, r, envOk) ==
    LET tl == ConcatTimeline(f, lst)
    IN IF envOk /\ tl # <<>>
       THEN Write(f, out, File("video", r, 0, SumDur(tl), "", tl))
       ELSE f

\* ffmpeg's exit status for the concatenation
ConcatSucceeds(f, lst, envOk) ==
    envOk /\ Len(ReadablePrefix(f, lst)) = Len(lst)

\* _assemble_video: write parts.txt, run the concatenation (exit status not
\* looked at; subprocess.run raises when ffmpeg cannot be started)
PremiumConcat ==
    /\ pc = "concat" /\ gen = "premium"
    /\ \E envOk \in BOOLEAN, started \in BOOLEAN :
         /\ envOk => started
         /\ envOk \/ faults < env.faults
         /\ faults' = IF envOk THEN faults ELSE faults + 1
         /\ IF started THEN pc' = "cleanup" /\ UNCHANGED raised
            ELSE pc' = "raised" /\ raised' = "spawn"
         /\ LET withList == Write(fs, PremiumPartsFile, File("list", run, 0, 0, "", <<>>))
            IN /\ fs' = ConcatOutput(withList, slide_videos, output_path, run, envOk)
               /\ calls' = Append(calls,
                              Call("concat", 0, NoPath, NoPath, AbsentFile, 0, output_path,
                                   ConcatSucceeds(withList, slide_videos, envOk),
                                   SumDur(ConcatTimeline(withList, slide_videos)),
                                   slide_videos))
    /\ listing' = slide_videos
    /\ list_path' = PremiumPartsFile
    /\ UNCHANGED <<gen, topic, subtopic, output_path, slides, slide_videos, tmpCount,
                   log, run, ops>>
    /\ UNCHANGED <<env, content, wfVars, callVars>>

\* the paths _assemble_video removes after the concatenation
PremiumCleanupSet(parts, lst) == {parts[j] : j \in 1..Len(parts)} \cup {lst}

\* _assemble_video: the cleanup loop; then create_video returns output_path
PremiumCleanup ==
    /\ pc = "cleanup" /\ gen = "premium"
    /\ fs' = Remove(fs, PremiumCleanupSet(slide_videos, list_path))
    /\ pc' = "returned"
    /\ UNCHANGED <<gen, topic, subtopic, output_path, slides, slide_videos, listing,
                   list_path, tmpCount, log, calls, raised, faults, run, ops>>
    /\ UNCHANGED <<env, content, wfVars, callVars>>

-----------------------------------------------------------------------------
(* create_video of LightweightVideoGenerator and of VideoGenerator *)

\* create_video up to the first _create_*_slide call
TempStart(g) ==
    /\ pc = "idle" /\ gen = g /\ wpc = "direct"
    /\ output_path' = OutputPath(g, topic, subtopic)
    /\ slides' = <<>>
    /\ pc' = "gen"
    /\ UNCHANGED <<gen, topic, subtopic, slide_videos, listing, list_path, fs,
                   tmpCount, log, calls, raised, faults, run, ops>>
    /\ UNCHANGED <<env, content, wfVars, callVars>>

\* all_mcqs[:3] in the lite and base generators, all_mcqs[:2] in the enhanced
McqsDrawn(g) == IF g = "enhanced" THEN 2 ELSE 3

\* _create_mcq_slide: y of the first question line (y = 100, then the title)
McqTop(g) == IF g = "enhanced" THEN 250 ELSE 220

\* the width the question text is wrapped to
QuestionWrapWidth(g) == IF g = "enhanced" THEN 30 ELSE 35

\* `if y > 1800: break` in front of a question line, and the y += after it
QuestionGuard(g) == IF g = "enhanced" THEN 1700 ELSE 1800

QuestionStep(g) == IF g = "enhanced" THEN 65 ELSE 50

\* the y += between the question lines and the options
QuestionGap(g) == IF g = "enhanced" THEN 30 ELSE 20

\* the y += after an option
OptionStep(g) == IF g = "enhanced" THEN 60 ELSE 45

\* the y += after the options of a question
McqGap(g) == IF g = "enhanced" THEN 50 ELSE 30

\* for opt_key in ['A', 'B', 'C', 'D']
OptionKeys == <<"A", "B", "C", "D">>

\* len(textwrap.wrap(f"{i}. {question}", width)) for a question of n letters
\* without a space: "1." alone for an empty question, else the lines of
\* width characters the prefix and the letters fill
QuestionLines(n, width) == IF n = 0 THEN 1 ELSE (n + 3 + width - 1) \div width

\* how many turns of a loop over `turns` elements run before `if y > guard:
\* break` fires, y growing by step in every turn
TurnsBeforeBreak(y, turns, guard, step) ==
    IF y > guard THEN 0 ELSE Min(turns, (guard - y) \div step + 1)

RECURSIVE McqsReadable(_, _, _)
\* the loop over the listed questions, the first at y: every
\* mcq['options'][opt_key] that is read before the break exists
McqsReadable(g, mcqs, y) ==
    IF mcqs = <<>> THEN TRUE
    ELSE LET mcq == Head(mcqs)
             lines == TurnsBeforeBreak(y, QuestionLines(mcq.question, QuestionWrapWidth(g)),
                                       QuestionGuard(g), QuestionStep(g))
             yOptions == y + lines * QuestionStep(g) + QuestionGap(g)
             read == TurnsBeforeBreak(yOptions, Len(OptionKeys), OptionGuard(g),
                                      OptionStep(g))
             yNext == yOptions + read * OptionStep(g) + McqGap(g)
         IN /\ \A j \in 1..read : OptionKeys[j] \in DOMAIN mcq.options
            /\ McqsReadable(g, Tail(mcqs), yNext)

\* the lesson fields _create_*_slide reads for slide i: the MCQ slide goes
\* through the first questions of the five and reads the options the y guard
\* lets it get to; reading a missing option label raises KeyError
LiteContentOk(g, i, c) ==
    LiteTemplate[i] = "mcq"
        => McqsReadable(g, Take(c.case_based_mcqs \o c.independent_mcqs, McqsDrawn(g)),
                        McqTop(g))

\* _create_*_slide: the image goes to a fresh temp file; _create_audio makes a
\* fresh temp .mp3 and returns its name, or None when the synthesis raises
TempGenSlide(g) ==
    /\ pc = "gen" /\ gen = g
    /\ LET i == Len(slides) + 1
           img == TempPath(tmpCount + 1, ".png")
           mp3 == TempPath(tmpCount + 2, ".mp3")
           withImg == Write(fs, img, File("img", run, i, 0, "", <<>>))
           render == Op("render", i, TRUE, 0, LiteFonts(g, env.fonts, i))
       IN /\ LiteContentOk(g, i, content)
          /\ \/ \E d \in env.voice :
                  /\ fs' = Write(withImg, mp3, File("speech", run, i, d, "", <<>>))
                  /\ slides' = Append(slides, Slide(img, mp3, 0))
                  /\ ops' = ops \o <<render, Op("tts", i, TRUE, 0, {})>>
                  /\ UNCHANGED log
             \/ /\ env.ttsFail
                /\ fs' = Write(withImg, mp3, File("junk", run, i, 0, "", <<>>))
                /\ slides' = Append(slides, Slide(img, NoPath, 0))
                /\ ops' = ops \o <<render, Op("tts", i, FALSE, 0, {})>>
                /\ log' = log \cup {LogEntry("Error creating audio", i, "tts")}
          /\ tmpCount' = tmpCount + 2
          /\ pc' = IF i < Len(LiteTemplate) THEN "gen"
                   ELSE IF g = "base" THEN "encode" ELSE "open"
    /\ UNCHANGED <<gen, topic, subtopic, output_path, slide_videos, listing,
                   list_path, calls, raised, faults, run>>
    /\ UNCHANGED <<env, content, wfVars, callVars>>

\* _create_*_slide raising: the lesson lacks a field (KeyError, before the
\* temp file of the image is made), or img.save(temp_img.name) fails (the temp
\* file NamedTemporaryFile created stays, empty)
TempGenRaises(g) ==
    /\ pc = "gen" /\ gen = g
    /\ LET i == Len(slides) + 1
           img == TempPath(tmpCount + 1, ".png")
       IN \/ /\ ~LiteContentOk(g, i, content)
             /\ raised' = "content"
             /\ UNCHANGED <<fs, tmpCount>>
          \/ /\ LiteContentOk(g, i, content)
             /\ env.renderFail
             /\ raised' = "render"
             /\ fs' = Write(fs, img, File("junk", run, i, 0, "", <<>>))
             /\ tmpCount' = tmpCount + 1
    /\ pc' = "raised"
    /\ UNCHANGED <<gen, topic, subtopic, output_path, slides, slide_videos, listing,
                   list_path, log, calls, faults, run, ops>>
    /\ UNCHANGED <<env, content, wfVars, callVars>>

LiteStart == TempStart("lite")

LiteGenSlide == TempGenSlide("lite")

LiteGenRaises == TempGenRaises("lite")

\* _combine_slides_ffmpeg: the concat list file is created first
CombineOpenList(g) ==
    /\ pc = "open" /\ gen = g
    /\ list_path' = TempPath(tmpCount + 1, ".txt")
    /\ fs' = Write(fs, TempPath(tmpCount + 1, ".txt"), File("list", run, 0, 0, "", <<>>))
    /\ tmpCount' = tmpCount + 1
    /\ listing' = <<>>
    /\ slide_videos' = <<>>
    /\ pc' = "encode"
    /\ UNCHANGED <<gen, topic, subtopic, output_path, slides, log, calls, raised,
                   faults, run, ops>>
    /\ UNCHANGED <<env, content, wfVars, callVars>>

\* `audio_path and os.path.exists(audio_path)`
HasAudio(f, s) == s.audio # NoPath /\ Exists(f, s.audio)

\* _combine_slides_ffmpeg: one turn of the loop; subprocess.run(check=True)
\* raises when ffmpeg fails
CombineEncode(g) ==
    /\ pc = "encode" /\ gen = g
    /\ LET i == Len(slide_videos) + 1
           s == slides[i]
           segment_path == TempPath(tmpCount + 1, ".mp4")
           withSeg == Write(fs, segment_path, File("junk", run, i, 0, "", <<>>))
           a == Read(fs, s.audio)
       IN /\ tmpCount' = tmpCount + 1
          /\ \E probeOk \in BOOLEAN, envOk \in BOOLEAN :
               /\ probeOk \/ HasAudio(fs, s)
               /\ faults' = faults + (IF probeOk THEN 0 ELSE 1) + (IF envOk THEN 0 ELSE 1)
               /\ faults' <= env.faults
               /\ LET duration == IF ~HasAudio(fs, s) THEN LiteDefaultDuration
                                  ELSE IF probeOk THEN a.dur ELSE LiteDefaultDuration
                      \* -shortest -t duration over a looped image and the audio
                      segDur == IF HasAudio(fs, s) THEN Min(duration, a.dur) ELSE duration
                      ok == envOk /\ Read(fs, s.img).k = "img"
                                  /\ (HasAudio(fs, s) => IsAudio(a))
                      c == [Call("encode", i, s.img, s.audio, a, duration,
                                 segment_path, ok, IF ok THEN segDur ELSE 0, <<>>)
                              EXCEPT !.cmd = LiteEncodeCmd(HasAudio(fs, s))]
                  IN /\ calls' = Append(calls, c)
                     /\ IF ok
                        THEN /\ fs' = Write(fs, segment_path,
                                            File("seg", run, i, segDur,
                                                 IF HasAudio(fs, s) THEN a.k ELSE "none",
                                                 <<>>))
                             /\ slide_videos' = Append(slide_videos, segment_path)
                             /\ listing' = Append(listing, segment_path)
                             /\ pc' = IF i = Len(slides) THEN "concat" ELSE "encode"
                             /\ UNCHANGED raised
                        ELSE /\ fs' = withSeg
                             /\ pc' = "raised"
                             /\ raised' = "encoder"
                             /\ UNCHANGED <<slide_videos, listing>>
               /\ ops' = IF HasAudio(fs, s)
                         THEN Append(ops, Op("probe", i, probeOk, a.dur, {}))
                         ELSE ops
    /\ UNCHANGED <<gen, topic, subtopic, output_path, slides, list_path, log, run>>
    /\ UNCHANGED <<env, content, wfVars, callVars>>

\* _combine_slides_ffmpeg: the concatenation, check=True
CombineConcat(g) ==
    /\ pc = "concat" /\ gen = g
    /\ \E envOk \in BOOLEAN :
         /\ envOk \/ faults < env.faults
         /\ faults' = IF envOk THEN faults ELSE faults + 1
         /\ fs' = ConcatOutput(fs, listing, output_path, run, envOk)
         /\ calls' = Append(calls,
                        Call("concat", 0, NoPath, NoPath, AbsentFile, 0, output_path,
                             ConcatSucceeds(fs, listing, envOk),
                             SumDur(ConcatTimeline(fs, listing)), listing))
         /\ IF ConcatSucceeds(fs, listing, envOk)
            THEN pc' = "cleanup" /\ UNCHANGED raised
            ELSE pc' = "raised" /\ raised' = "encoder"
    /\ UNCHANGED <<gen, topic, subtopic, output_path, slides, slide_videos, listing,
                   list_path, tmpCount, log, run, ops>>
    /\ UNCHANGED <<env, content, wfVars, callVars>>

\* the paths the two cleanup loops of the lite generator remove
LiteCleanupSet(sl, segs, lst) ==
    {lst} \cup {segs[j] : j \in 1..Len(segs)}
          \cup {sl[j].img : j \in 1..Len(sl)}
          \cup {sl[j].audio : j \in {x \in 1..Len(sl) : sl[x].audio # NoPath}}

\* cleanup at the end of _combine_slides_ffmpeg and of create_video, then
\* create_video returns output_path
CombineCleanup(g) ==
    /\ pc = "cleanup" /\ gen = g
    /\ fs' = Remove(fs, LiteCleanupSet(slides, slide_videos, list_path))
    /\ pc' = "returned"
    /\ UNCHANGED <<gen, topic, subtopic, output_path, slides, slide_videos, listing,
                   list_path, tmpCount, log, calls, raised, faults, run, ops>>
    /\ UNCHANGED <<env, content, wfVars, callVars>>

LiteOpenList == CombineOpenList("lite")

LiteEncode == CombineEncode("lite")

LiteConcat == CombineConcat("lite")

LiteCleanup == CombineCleanup("lite")

EnhancedStart == TempStart("enhanced")

EnhancedGenSlide == TempGenSlide("enhanced")

EnhancedGenRaises == TempGenRaises("enhanced")

EnhancedOpenList == CombineOpenList("enhanced")

EnhancedEncode == CombineEncode("enhanced")

EnhancedConcat == CombineConcat("enhanced")

EnhancedCleanup == CombineCleanup("enhanced")

BaseStart == TempStart("base")

BaseGenSlide == TempGenSlide("base")

BaseGenRaises == TempGenRaises("base")

\* the clips of final_clips: the audio's duration, or 3 seconds without audio
BaseClips(f, sl, r) ==
    [j \in 1..Len(sl) |->
        IF HasAudio(f, sl[j])
        THEN Clip(j, Read(f, sl[j].audio).dur, Read(f, sl[j].audio).k, r)
        ELSE Clip(j, LiteDefaultDuration, "none", r)]

RECURSIVE Subclipped(_, _)
\* final_video.subclipped(0, t): the timeline cut at t
Subclipped(tl, t) ==
    IF tl = <<>> \/ t <= 0 THEN <<>>
    ELSE IF Head(tl).dur <= t
         THEN <<Head(tl)>> \o Subclipped(Tail(tl), t - Head(tl).dur)
         ELSE <<[Head(tl) EXCEPT !.dur = t]>>

\* `if final_video.duration > 59: final_video = final_video.subclipped(0, 59)`
BaseFinalVideo(tl) == IF SumDur(tl) > DurationCap THEN Subclipped(tl, DurationCap) ELSE tl

\* the combine loop, concatenate_videoclips, the cap, write_videofile
BaseRender ==
    /\ pc = "encode" /\ gen = "base"
    /\ \E envOk \in BOOLEAN :
         /\ envOk \/ faults < env.faults
         /\ faults' = IF envOk THEN faults ELSE faults + 1
         /\ LET clips == BaseClips(fs, slides, run)
                final == BaseFinalVideo(clips)
            IN /\ calls' = Append(calls,
                              Call("write", 0, NoPath, NoPath, AbsentFile, SumDur(clips),
                                   output_path, envOk, SumDur(final), <<>>))
               /\ IF envOk
                  THEN /\ fs' = Write(fs, output_path,
                                      File("video", run, 0, SumDur(final), "", final))
                       /\ pc' = "cleanup"
                       /\ UNCHANGED raised
                  ELSE /\ pc' = "raised"
                       /\ raised' = "encoder"
                       /\ UNCHANGED fs
    /\ UNCHANGED <<gen, topic, subtopic, output_path, slides, slide_videos, listing,
                   list_path, tmpCount, log, run, ops>>
    /\ UNCHANGED <<env, content, wfVars, callVars>>

\* the paths the cleanup loop of VideoGenerator.create_video removes
BaseCleanupSet(sl) == {sl[j].audio : j \in {x \in 1..Len(sl) : sl[x].audio # NoPath}}

\* "Clean up temporary audio files", then create_video returns output_path
BaseCleanup ==
    /\ pc = "cleanup" /\ gen = "base"
    /\ fs' = Remove(fs, BaseCleanupSet(slides))
    /\ pc' = "returned"
    /\ UNCHANGED <<gen, topic, subtopic, output_path, slides, slide_videos, listing,
                   list_path, tmpCount, log, calls, raised, faults, run, ops>>
    /\ UNCHANGED <<env, content, wfVars, callVars>>

-----------------------------------------------------------------------------
(* database.py *)

\* a row of the topics table
TopicRow(subject, tname, sname, cycle, used) ==
    [subject_id |-> subject, topic_name |-> tname, subtopic_name |-> sname,
     cycle_number |-> cycle, used |-> used]

\* the row of the workflow_state table (id = 1)
WorkflowState(subject, runs) ==
    [present |-> TRUE, current_subject_id |-> subject, total_runs |-> runs]

\* the workflow_state table without a row
NoWorkflowState == [present |-> FALSE, current_subject_id |-> 0, total_runs |-> 0]

\* the database: subjects (ids), topics (id -> row), cases (rows in insertion
\* order), state (the workflow_state table)
Database(subjects, topics, cases, state) ==
    [subjects |-> subjects, topics |-> topics, cases |-> cases, state |-> state,
     names |-> [x \in subjects |-> <<"s", ToString(x)>>]]

SetMin(S) == CHOOSE x \in S : \A y \in S : x <= y

SetMax(S) == CHOOSE x \in S : \A y \in S : x >= y

\* a rotation that stays on the last subject instead of wrapping to the first
NextInRotationNoWrap(subjects, state) ==
    IF state.present /\ state.current_subject_id \in subjects
    THEN LET cur == state.current_subject_id
             later == {x \in subjects : x > cur}
         IN IF later = {} THEN cur ELSE SetMin(later)
    ELSE SetMin(subjects)

\* get_next_subject_for_rotation after its two SELECTs: subjects is the list
\* of ids the first gave (not empty), state the workflow_state row the second
\* gave
NextInRotation(subjects, state) ==
    IF state.present /\ state.current_subject_id # 0
    THEN LET cur == state.current_subject_id
             later == {x \in subjects : x > cur}
         IN IF cur \in subjects
            THEN IF later = {} THEN SetMin(subjects) ELSE SetMin(later)
            ELSE SetMin(subjects)
    ELSE SetMin(subjects)

\* get_next_subject_for_rotation when no other connection writes between its
\* two SELECTs; 0 stands for None
GetNextSubjectForRotation(d) ==
    IF d.subjects = {} THEN 0 ELSE NextInRotation(d.subjects, d.state)

TopicsOf(d, subject) == {t \in DOMAIN d.topics : d.topics[t].subject_id = subject}

\* SELECT MAX(cycle_number) ...; `result[0] if result[0] else 1`
CurrentCycle(d, subject) ==
    IF TopicsOf(d, subject) = {} THEN 1
    ELSE LET m == SetMax({d.topics[t].cycle_number : t \in TopicsOf(d, subject)})
         IN IF m = 0 THEN 1 ELSE m

\* the rows of ... WHERE subject_id = ? AND cycle_number = ? AND used = 0
UnusedInCycle(d, subject, cycle) ==
    {t \in TopicsOf(d, subject) : d.topics[t].cycle_number = cycle /\ ~d.topics[t].used}

\* the lowest-id unused topic of the subject, whatever its cycle
SelectUnusedAnyCycle(d, subject, cycle) ==
    LET unused == {t \in TopicsOf(d, subject) : ~d.topics[t].used}
    IN IF unused = {} THEN 0 ELSE SetMin(unused)

\* get_next_unused_topic, second statement: SELECT ... ORDER BY id LIMIT 1
\* with the cycle the first statement gave; 0 stands for no row
SelectUnusedTopic(d, subject, cycle) ==
    IF UnusedInCycle(d, subject, cycle) = {} THEN 0
    ELSE SetMin(UnusedInCycle(d, subject, cycle))

\* check_and_start_new_cycle, second statement: SELECT COUNT ...
CountUnused(d, subject, cycle) == Cardinality(UnusedInCycle(d, subject, cycle))

\* an UPDATE without WHERE subject_id = ?
UpdateCycleAll(d, subject, new_cycle) ==
    [d EXCEPT !.topics =
        [t \in DOMAIN d.topics |->
            [d.topics[t] EXCEPT !.used = FALSE, !.cycle_number = new_cycle]]]

\* check_and_start_new_cycle, last statement: UPDATE topics SET used = 0,
\* cycle_number = ? WHERE subject_id = ?, on the rows the subject has when the
\* statement runs
UpdateCycle(d, subject, new_cycle) ==
    [d EXCEPT !.topics =
        [t \in DOMAIN d.topics |->
            IF d.topics[t].subject_id = subject
            THEN [d.topics[t] EXCEPT !.used = FALSE, !.cycle_number = new_cycle]
            ELSE d.topics[t]]]

\* check_and_start_new_cycle when no other connection writes between its
\* statements: what it returns
StartsNewCycle(d, subject) == CountUnused(d, subject, CurrentCycle(d, subject)) = 0

\* check_and_start_new_cycle when no other connection writes between its
\* statements: the database it leaves
CheckAndStartNewCycle(d, subject) ==
    IF StartsNewCycle(d, subject)
    THEN UpdateCycle(d, subject, CurrentCycle(d, subject) + 1)
    ELSE d

\* a case row that drops the result of the upload
CaseRowNoUrl(topic_id, video_path, youtube_result, telegram_message_id) ==
    [topic_id |-> topic_id, video_path |-> video_path,
     video_url |-> None, youtube_id |-> None,
     telegram_message_id |-> telegram_message_id]

\* a row of the cases table
CaseRow(topic_id, video_path, youtube_result, telegram_message_id) ==
    [topic_id |-> topic_id, video_path |-> video_path,
     video_url |-> youtube_result, youtube_id |-> youtube_result,
     telegram_message_id |-> telegram_message_id]

\* a mark that leaves the topic unused
MarkNothing(d, topic_id) == d

\* add_case
AddCase(d, row) == [d EXCEPT !.cases = Append(d.cases, row)]

\* update_case_video_info: the case ids are 1, 2, ... in insertion order; an
\* argument that is None leaves its column, and an id without a row changes
\* nothing
UpdateCaseVideoInfo(d, case_id, video_url, youtube_id, telegram_message_id) ==
    IF case_id \notin 1..Len(d.cases) THEN d
    ELSE [d EXCEPT !.cases[case_id] =
            [@ EXCEPT !.video_url = IF video_url # None THEN video_url ELSE @,
                      !.youtube_id = IF youtube_id # None THEN youtube_id ELSE @,
                      !.telegram_message_id =
                          IF telegram_message_id # None THEN telegram_message_id ELSE @]]

\* mark_topic_as_used
MarkTopicAsUsed(d, topic_id) ==
    [d EXCEPT !.topics =
        [t \in DOMAIN d.topics |->
            IF t = topic_id THEN [d.topics[t] EXCEPT !.used = TRUE] ELSE d.topics[t]]]

\* an update that replaces the row (INSERT OR REPLACE)
ReplaceWorkflowState(d, subject) == [d EXCEPT !.state = WorkflowState(subject, 1)]

\* update_workflow_state: INSERT ... ON CONFLICT(id) DO UPDATE
UpdateWorkflowState(d, subject) ==
    [d EXCEPT !.state =
        WorkflowState(subject, IF d.state.present THEN d.state.total_runs + 1 ELSE 1)]

\* the id AUTOINCREMENT gives the next row of a table whose ids are ids
NextId(ids) == IF ids = {} THEN 1 ELSE SetMax(ids) + 1

\* the subjects named name
SubjectsNamed(d, name) == {x \in d.subjects : d.names[x] = name}

\* add_subject: the id it returns (UNIQUE(name) makes the INSERT fail for an
\* existing name, and the id of the existing row is selected)
AddSubjectId(d, name) ==
    IF SubjectsNamed(d, name) # {} THEN SetMin(SubjectsNamed(d, name))
    ELSE NextId(d.subjects)

\* add_subject: the database it leaves
AddSubject(d, name) ==
    IF SubjectsNamed(d, name) # {} THEN d
    ELSE [d EXCEPT !.subjects = d.subjects \cup {NextId(d.subjects)},
                   !.names = [x \in d.subjects \cup {NextId(d.subjects)} |->
                                 IF x \in d.subjects THEN d.names[x] ELSE name]]

\* None where a text is expected (NULL in a TEXT column)
NoText == <<None>>

\* the rows that make UNIQUE(subject_id, topic_name, subtopic_name) reject an
\* INSERT: sqlite holds two NULLs to be distinct, so a row without subtopic
\* conflicts with no row
TopicConflicts(d, subject, tname, sname) ==
    {t \in DOMAIN d.topics :
        /\ sname # NoText
        /\ d.topics[t].subject_id = subject
        /\ d.topics[t].topic_name = tname
        /\ d.topics[t].subtopic_name = sname}

\* add_topic: the id it returns; 0 stands for None
AddTopicId(d, subject, tname, sname, cycle) ==
    IF TopicConflicts(d, subject, tname, sname) # {} THEN 0
    ELSE NextId(DOMAIN d.topics)

\* add_topic: the database it leaves
AddTopic(d, subject, tname, sname, cycle) ==
    IF TopicConflicts(d, subject, tname, sname) # {} THEN d
    ELSE [d EXCEPT !.topics =
            [t \in DOMAIN d.topics \cup {NextId(DOMAIN d.topics)} |->
                IF t \in DOMAIN d.topics THEN d.topics[t]
                ELSE TopicRow(subject, tname, sname, cycle, FALSE)]]

\* get_topic_count_by_subject: COUNT ... WHERE cycle_number = 1
GetTopicCountBySubject(d, subject) ==
    Cardinality({t \in TopicsOf(d, subject) : d.topics[t].cycle_number = 1})

\* a call of a method of MedicalDatabase: its arguments and the database it
\* was made on
DbCall(op, p1, p2, before) == [op |-> op, p1 |-> p1, p2 |-> p2, before |-> before]

SubjectNames == {<<"a">>, <<"b">>}

SubtopicNames == {<<"7">>, NoText}

\* a call of a method is between two of its statements
InFlight == ret.raised = "running"

\* the call in flight is a call of op at the statement named at
InFlightAt(op, at) == InFlight /\ arg.op = op /\ ret.value.at = at

\* add_subject(name)
DbAddSubject ==
    /\ ~InFlight
    /\ \E name \in SubjectNames :
         /\ arg' = DbCall("add_subject", name, None, db)
         /\ ret' = Returned(AddSubjectId(db, name))
         /\ db' = AddSubject(db, name)
    /\ UNCHANGED <<wpc, results, wf, produced, createCalls, selected, dbAtStart, status>>
    /\ UNCHANGED <<content, env, other, videoVars>>

\* add_topic(subject_id, topic_name, subtopic_name, cycle_number = 1)
DbAddTopic ==
    /\ ~InFlight
    /\ Cardinality(DOMAIN db.topics) < MaxTopics
    /\ \E subject \in db.subjects, sname \in SubtopicNames :
         /\ arg' = DbCall("add_topic", subject, sname, db)
         /\ ret' = Returned(AddTopicId(db, subject, <<"a">>, sname, 1))
         /\ db' = AddTopic(db, subject, <<"a">>, sname, 1)
    /\ UNCHANGED <<wpc, results, wf, produced, createCalls, selected, dbAtStart, status>>
    /\ UNCHANGED <<content, env, other, videoVars>>

\* get_next_unused_topic(subject_id) is called: SELECT MAX(cycle_number)
DbGetNextUnusedTopic ==
    /\ ~InFlight
    /\ \E subject \in db.subjects :
         /\ arg' = DbCall("get_next_unused_topic", subject, None, db)
         /\ ret' = Running([at |-> "select", current_cycle |-> CurrentCycle(db, subject)])
    /\ UNCHANGED <<wpc, results, wf, db, produced, createCalls, selected, dbAtStart, status>>
    /\ UNCHANGED <<content, env, other, videoVars>>

\* get_next_unused_topic: SELECT ... LIMIT 1, and the method returns
DbSelectUnusedTopic ==
    /\ InFlightAt("get_next_unused_topic", "select")
    /\ ret' = Returned(SelectUnusedTopic(db, arg.p1, ret.value.current_cycle))
    /\ UNCHANGED <<arg, wpc, results, wf, db, produced, createCalls, selected, dbAtStart, status>>
    /\ UNCHANGED <<content, env, other, videoVars>>

\* mark_topic_as_used(topic_id)
DbMarkTopicAsUsed ==
    /\ ~InFlight
    /\ \E topic_id \in DOMAIN db.topics :
         /\ arg' = DbCall("mark_topic_as_used", topic_id, None, db)
         /\ ret' = Returned(None)
         /\ db' = MarkTopicAsUsed(db, topic_id)
    /\ UNCHANGED <<wpc, results, wf, produced, createCalls, selected, dbAtStart, status>>
    /\ UNCHANGED <<content, env, other, videoVars>>

\* check_and_start_new_cycle(subject_id) is called: SELECT MAX(cycle_number)
DbCheckAndStartNewCycle ==
    /\ ~InFlight
    /\ \E subject \in db.subjects :
         /\ StartsNewCycle(db, subject) => CurrentCycle(db, subject) < MaxCycle
         /\ arg' = DbCall("check_and_start_new_cycle", subject, None, db)
         /\ ret' = Running([at |-> "count", current_cycle |-> CurrentCycle(db, subject)])
    /\ UNCHANGED <<wpc, results, wf, db, produced, createCalls, selected, dbAtStart, status>>
    /\ UNCHANGED <<content, env, other, videoVars>>

\* check_and_start_new_cycle: SELECT COUNT; with an unused topic left the
\* method returns False
DbCountUnused ==
    /\ InFlightAt("check_and_start_new_cycle", "count")
    /\ ret' = IF CountUnused(db, arg.p1, ret.value.current_cycle) = 0
              THEN Running([ret.value EXCEPT !.at = "update"])
              ELSE Returned(FALSE)
    /\ UNCHANGED <<arg, wpc, results, wf, db, produced, createCalls, selected, dbAtStart, status>>
    /\ UNCHANGED <<content, env, other, videoVars>>

\* check_and_start_new_cycle: the UPDATE and the commit (the SELECT of the
\* cycle 1 topics before it reads rows nothing uses); the method returns True
DbUpdateCycle ==
    /\ InFlightAt("check_and_start_new_cycle", "update")
    /\ ret.value.current_cycle < MaxCycle
    /\ db' = UpdateCycle(db, arg.p1, ret.value.current_cycle + 1)
    /\ ret' = Returned(TRUE)
    /\ UNCHANGED <<arg, wpc, results, wf, produced, createCalls, selected, dbAtStart, status>>
    /\ UNCHANGED <<content, env, other, videoVars>>

\* update_workflow_state(subject_id)
DbUpdateWorkflowState ==
    /\ ~InFlight
    /\ db.state.total_runs < MaxWorkflowRuns
    /\ \E subject \in db.subjects :
         /\ arg' = DbCall("update_workflow_state", subject, None, db)
         /\ ret' = Returned(None)
         /\ db' = UpdateWorkflowState(db, subject)
         /\ selected' = Append(selected, subject)
    /\ UNCHANGED <<wpc, results, wf, produced, createCalls, dbAtStart, status>>
    /\ UNCHANGED <<content, env, other, videoVars>>

\* what add_case and update_case_video_info are given for the video: nothing
\* or a value
VideoInfo == {None, "yt"}

\* what they are given for the Telegram message
MessageInfo == {None, "msg"}

\* add_case(topic_id, ..., video_path, video_url, youtube_id,
\* telegram_message_id); the topic need not exist (foreign keys are not
\* enforced)
DbAddCase ==
    /\ ~InFlight
    /\ Len(db.cases) < MaxCases
    /\ \E youtube_result \in VideoInfo, telegram_message_id \in MessageInfo :
         /\ arg' = DbCall("add_case", 1, <<youtube_result, telegram_message_id>>, db)
         /\ ret' = Returned(Len(db.cases) + 1)
         /\ db' = AddCase(db, CaseRow(1, NoPath, youtube_result, telegram_message_id))
    /\ UNCHANGED <<wpc, results, wf, produced, createCalls, selected, dbAtStart, status>>
    /\ UNCHANGED <<content, env, other, videoVars>>

\* update_case_video_info(case_id, video_url, youtube_id, telegram_message_id)
DbUpdateCaseVideoInfo ==
    /\ ~InFlight
    /\ \E case_id \in 1..MaxCases, video_url \in VideoInfo, youtube_id \in VideoInfo,
          telegram_message_id \in MessageInfo :
         /\ arg' = DbCall("update_case_video_info", case_id,
                          <<video_url, youtube_id, telegram_message_id>>, db)
         /\ ret' = Returned(None)
         /\ db' = UpdateCaseVideoInfo(db, case_id, video_url, youtube_id,
                                      telegram_message_id)
    /\ UNCHANGED <<wpc, results, wf, produced, createCalls, selected, dbAtStart, status>>
    /\ UNCHANGED <<content, env, other, videoVars>>

-----------------------------------------------------------------------------
(* Another process on the same database file *)

\* no other process is inside check_and_start_new_cycle
NoOther == [at |-> "idle", subject_id |-> 0, current_cycle |-> 0]

\* another process commits add_topic
OtherAddTopic ==
    /\ Cardinality(DOMAIN db.topics) < MaxTopics
    /\ \E subject \in db.subjects, sname \in SubtopicNames :
         /\ TopicConflicts(db, subject, <<"a">>, sname) = {}
         /\ db' = AddTopic(db, subject, <<"a">>, sname, 1)
    /\ UNCHANGED <<wpc, results, wf, produced, createCalls, selected, dbAtStart, status>>
    /\ UNCHANGED <<content, env, callVars, videoVars>>

\* another process commits mark_topic_as_used
OtherMarkTopicAsUsed ==
    /\ \E topic_id \in DOMAIN db.topics :
         /\ ~db.topics[topic_id].used
         /\ db' = MarkTopicAsUsed(db, topic_id)
    /\ UNCHANGED <<wpc, results, wf, produced, createCalls, selected, dbAtStart, status>>
    /\ UNCHANGED <<content, env, callVars, videoVars>>

\* another process calls check_and_start_new_cycle(subject_id): SELECT MAX
OtherCheckAndStartNewCycle ==
    /\ other.at = "idle"
    /\ \E subject \in db.subjects :
         /\ CurrentCycle(db, subject) < MaxCycle
         /\ other' = [at |-> "count", subject_id |-> subject,
                      current_cycle |-> CurrentCycle(db, subject)]
    /\ UNCHANGED <<wpc, results, wf, db, produced, createCalls, selected, dbAtStart, status>>
    /\ UNCHANGED <<content, env, arg, ret, videoVars>>

\* its SELECT COUNT; with an unused topic left its call returns False
OtherCountUnused ==
    /\ other.at = "count"
    /\ other' = IF CountUnused(db, other.subject_id, other.current_cycle) = 0
                THEN [other EXCEPT !.at = "update"]
                ELSE NoOther
    /\ UNCHANGED <<wpc, results, wf, db, produced, createCalls, selected, dbAtStart, status>>
    /\ UNCHANGED <<content, env, arg, ret, videoVars>>

\* its UPDATE and commit, with the cycle number it read
OtherUpdateCycle ==
    /\ other.at = "update"
    /\ db' = UpdateCycle(db, other.subject_id, other.current_cycle + 1)
    /\ other' = NoOther
    /\ UNCHANGED <<wpc, results, wf, produced, createCalls, selected, dbAtStart, status>>
    /\ UNCHANGED <<content, env, arg, ret, videoVars>>

-----------------------------------------------------------------------------
(* main.py: MedicalEducationOrchestrator.check_and_generate_topics *)

\* a generate_new_topics request
TopicRequest(subject, count) == [subject |-> subject, count |-> count]

\* what generate_new_topics may return: nothing (also when the request
\* failed) or a list of one topic
GeneratedLists == {<<>>, <<[topic |-> <<"a">>, subtopic |-> <<"8">>]>>}

\* the loop over the subjects goes on to the next subject, or the method
\* returns; the requests it made are what the call is recorded to return
NextSubject(locals) ==
    LET rest == locals.subjects \ {SetMin(locals.subjects)}
    IN IF rest = {} THEN Returned(locals.requests)
       ELSE Running([locals EXCEPT !.at = "count", !.subjects = rest,
                                   !.new_topics = <<>>])

\* check_and_generate_topics(min_topics) is called: get_all_subjects
DbCheckAndGenerateTopics ==
    /\ ~InFlight
    /\ \E min_topics \in 1..MaxMinTopics :
         /\ arg' = DbCall("check_and_generate_topics", min_topics, None, db)
         /\ ret' = IF db.subjects = {} THEN Returned({})
                   ELSE Running([at |-> "count", subjects |-> db.subjects,
                                 requests |-> {}, new_topics |-> <<>>])
    /\ UNCHANGED <<wpc, results, wf, db, produced, createCalls, selected, dbAtStart, status>>
    /\ UNCHANGED <<content, env, other, videoVars>>

\* check_and_generate_topics: get_topic_count_by_subject for the next subject
\* of the list; a low count makes a request
DbCountTopics ==
    /\ InFlightAt("check_and_generate_topics", "count")
    /\ LET subject == SetMin(ret.value.subjects)
           count == GetTopicCountBySubject(db, subject)
       IN ret' = IF count < arg.p1
                 THEN Running([ret.value EXCEPT
                                  !.at = "request",
                                  !.requests = @ \cup {TopicRequest(subject, arg.p1 - count)}])
                 ELSE NextSubject(ret.value)
    /\ UNCHANGED <<arg, wpc, results, wf, db, produced, createCalls, selected, dbAtStart, status>>
    /\ UNCHANGED <<content, env, other, videoVars>>

\* check_and_generate_topics: generate_new_topics answers (a request that
\* raises is printed and the loop goes on)
DbReceiveTopics ==
    /\ InFlightAt("check_and_generate_topics", "request")
    /\ \E new_topics \in GeneratedLists :
         /\ Cardinality(DOMAIN db.topics) + Len(new_topics) <= MaxTopics
         /\ ret' = IF new_topics = <<>> THEN NextSubject(ret.value)
                   ELSE Running([ret.value EXCEPT !.at = "add", !.new_topics = new_topics])
    /\ UNCHANGED <<arg, wpc, results, wf, db, produced, createCalls, selected, dbAtStart, status>>
    /\ UNCHANGED <<content, env, other, videoVars>>

\* check_and_generate_topics: add_topic for the next generated topic
DbAddGeneratedTopic ==
    /\ InFlightAt("check_and_generate_topics", "add")
    /\ LET subject == SetMin(ret.value.subjects)
           topic_data == Head(ret.value.new_topics)
           d2 == AddTopic(db, subject, topic_data.topic, topic_data.subtopic, 1)
       IN /\ Cardinality(DOMAIN d2.topics) <= MaxTopics
          /\ db' = d2
          /\ ret' = IF Tail(ret.value.new_topics) = <<>> THEN NextSubject(ret.value)
                    ELSE Running([ret.value EXCEPT !.new_topics = Tail(@)])
    /\ UNCHANGED <<arg, wpc, results, wf, produced, createCalls, selected, dbAtStart, status>>
    /\ UNCHANGED <<content, env, other, videoVars>>

-----------------------------------------------------------------------------
(* main.py: MedicalEducationOrchestrator.run_daily_workflow *)

\* the except handler of run_daily_workflow: results['error'] = str(e); the
\* function then returns results
WfFail(e) ==
    /\ results' = [results EXCEPT !.error = e]
    /\ wpc' = "end"

\* a database call of the run raises: the except handler of
\* run_daily_workflow takes it; the locals of the method are gone
WfDatabaseError ==
    /\ env.dbFail
    /\ WfFail("database error")
    /\ wf' = [wf EXCEPT !.subjects = {}, !.current_cycle = 0]

\* Step 1, get_next_subject_for_rotation: SELECT id FROM subjects; without a
\* subject the method returns None and run_daily_workflow raises
WfGetNextSubjectForRotation ==
    /\ wpc = "start"
    /\ \/ /\ db.subjects # {}
          /\ wf' = [wf EXCEPT !.subjects = db.subjects]
          /\ wpc' = "rotation"
          /\ UNCHANGED results
       \/ /\ db.subjects = {}
          /\ WfFail("No subjects found in database")
          /\ UNCHANGED wf
       \/ WfDatabaseError
    /\ UNCHANGED <<db, produced, createCalls, env, content, callVars, selected, dbAtStart, status>>
    /\ UNCHANGED videoVars

\* Step 1, get_next_subject_for_rotation: SELECT current_subject_id FROM
\* workflow_state; the method returns and subject_id is bound
WfReadWorkflowState ==
    /\ wpc = "rotation"
    /\ \/ /\ wf' = [wf EXCEPT !.subject_id = NextInRotation(wf.subjects, db.state),
                              !.subjects = {}]
          /\ wpc' = "subject"
          /\ UNCHANGED results
       \/ WfDatabaseError
    /\ UNCHANGED <<db, produced, createCalls, env, content, callVars, selected, dbAtStart, status>>
    /\ UNCHANGED videoVars

\* Step 1: get_all_subjects and the lookup of the subject's name; when the
\* call raises subject_id stays bound
WfSelectSubject ==
    /\ wpc = "subject"
    /\ \/ /\ wpc' = "topic"
          /\ UNCHANGED <<results, wf>>
       \/ WfDatabaseError
    /\ UNCHANGED <<db, produced, createCalls, env, content, callVars, selected, dbAtStart, status>>
    /\ UNCHANGED videoVars

\* Step 2, get_next_unused_topic (the first call, and the call after
\* check_and_start_new_cycle): SELECT MAX(cycle_number)
WfGetNextUnusedTopic ==
    /\ wpc = "topic"
    /\ \/ /\ wf' = [wf EXCEPT !.current_cycle = CurrentCycle(db, wf.subject_id)]
          /\ wpc' = "select"
          /\ UNCHANGED results
       \/ WfDatabaseError
    /\ UNCHANGED <<db, produced, createCalls, env, content, callVars, selected, dbAtStart, status>>
    /\ UNCHANGED videoVars

\* Step 2, get_next_unused_topic: SELECT ... LIMIT 1; the method returns the
\* topic, or None: the first time check_and_start_new_cycle is called next,
\* the second time run_daily_workflow raises
WfSelectTopic ==
    /\ wpc = "select"
    /\ LET topic_id == SelectUnusedTopic(db, wf.subject_id, wf.current_cycle)
       IN \/ /\ topic_id # 0
             /\ wf' = [wf EXCEPT !.topic_id = topic_id, !.current_cycle = 0]
             /\ wpc' = "content"
             /\ UNCHANGED results
          \/ /\ topic_id = 0 /\ ~wf.cycle_checked
             /\ wf' = [wf EXCEPT !.current_cycle = 0]
             /\ wpc' = "cycle"
             /\ UNCHANGED results
          \/ /\ topic_id = 0 /\ wf.cycle_checked
             /\ WfFail("No topics available for subject")
             /\ wf' = [wf EXCEPT !.current_cycle = 0]
          \/ WfDatabaseError
    /\ UNCHANGED <<db, produced, createCalls, env, content, callVars, selected, dbAtStart, status>>
    /\ UNCHANGED videoVars

\* Step 2, check_and_start_new_cycle: SELECT MAX(cycle_number)
WfCheckAndStartNewCycle ==
    /\ wpc = "cycle"
    /\ \/ /\ wf' = [wf EXCEPT !.current_cycle = CurrentCycle(db, wf.subject_id)]
          /\ wpc' = "count"
          /\ UNCHANGED results
       \/ WfDatabaseError
    /\ UNCHANGED <<db, produced, createCalls, env, content, callVars, selected, dbAtStart, status>>
    /\ UNCHANGED videoVars

\* Step 2, check_and_start_new_cycle: SELECT COUNT; with an unused topic
\* left (another connection added one) the method returns False
WfCountUnused ==
    /\ wpc = "count"
    /\ \/ /\ CountUnused(db, wf.subject_id, wf.current_cycle) = 0
          /\ wpc' = "update"
          /\ UNCHANGED <<results, wf>>
       \/ /\ CountUnused(db, wf.subject_id, wf.current_cycle) # 0
          /\ wf' = [wf EXCEPT !.current_cycle = 0, !.cycle_checked = TRUE]
          /\ wpc' = "topic"
          /\ UNCHANGED results
       \/ WfDatabaseError
    /\ UNCHANGED <<db, produced, createCalls, env, content, callVars, selected, dbAtStart, status>>
    /\ UNCHANGED videoVars

\* Step 2, check_and_start_new_cycle: the UPDATE and the commit; the method
\* returns True (a statement that raises commits nothing)
WfUpdateCycle ==
    /\ wpc = "update"
    /\ \/ /\ db' = UpdateCycle(db, wf.subject_id, wf.current_cycle + 1)
          /\ wf' = [wf EXCEPT !.current_cycle = 0, !.cycle_checked = TRUE]
          /\ wpc' = "topic"
          /\ UNCHANGED results
       \/ /\ WfDatabaseError
          /\ UNCHANGED db
    /\ UNCHANGED <<produced, createCalls, env, content, callVars, selected, dbAtStart, status>>
    /\ UNCHANGED videoVars

\* the responses the content service gives the workflow: a lesson within the
\* contract, one with a question short of an option, one with a question short
WorkflowResponses ==
    { AiResponse(TRUE, RequiredKeys, ContractLesson(40, 10)),
      AiResponse(TRUE, RequiredKeys,
                 Lesson(40, Questions(3, ThreeOptions(10)), Questions(2, ThreeOptions(10)),
                        [k \in AnswerKeys |-> "B"], 8)),
      AiResponse(TRUE, RequiredKeys,
                 Lesson(40, Questions(2, FourOptions(10)), Questions(2, FourOptions(10)),
                        [k \in AnswerKeys |-> "B"], 8)) }

\* Step 3: generate_educational_content returns the lesson _parse_ai_response
\* accepted, or raises (the API call, or the parser)
WfGenerateContent ==
    /\ wpc = "content"
    /\ \/ \E r \in WorkflowResponses :
            LET parsed == ParseAiResponse(r)
            IN IF parsed.raised = None
               THEN /\ content' = parsed.value
                    /\ wpc' = "call"
                    /\ UNCHANGED results
               ELSE /\ WfFail(parsed.raised)
                    /\ UNCHANGED content
       \/ /\ env.contentFail
          /\ WfFail("content generation failed")
          /\ UNCHANGED content
    /\ UNCHANGED <<wf, db, produced, createCalls, env, callVars, selected, dbAtStart, status>>
    /\ UNCHANGED videoVars

\* Step 4: self.video_generator.create_video(content, topic_name, subtopic_name)
WfCallCreateVideo ==
    /\ wpc = "call" /\ pc = "idle"
    /\ topic' = db.topics[wf.topic_id].topic_name
    /\ subtopic' = db.topics[wf.topic_id].subtopic_name
    /\ createCalls' = createCalls + 1
    /\ wpc' = "video"
    /\ UNCHANGED <<gen, pc, output_path, slides, slide_videos, listing, list_path, fs,
                   tmpCount, log, calls, raised, faults, run, ops>>
    /\ UNCHANGED <<results, wf, db, produced, env, content, callVars, selected, dbAtStart, status>>

\* create_video returned: results['video_path'] = video_path
WfVideoReturned ==
    /\ wpc = "video" /\ pc = "returned"
    /\ wf' = [wf EXCEPT !.video_path = output_path]
    /\ results' = [results EXCEPT !.video_path = output_path]
    /\ produced' = Read(fs, output_path)
    /\ wpc' = "upload"
    /\ UNCHANGED <<db, createCalls, env, content, callVars, selected, dbAtStart, status>>
    /\ UNCHANGED videoVars

\* create_video raised: the except handler of run_daily_workflow takes it
WfVideoRaised ==
    /\ wpc = "video" /\ pc = "raised"
    /\ WfFail(raised)
    /\ UNCHANGED <<wf, db, produced, createCalls, env, content, callVars, selected, dbAtStart, status>>
    /\ UNCHANGED videoVars

\* the topic row the run selected has a subtopic
HasSubtopic(d, topic_id) == d.topics[topic_id].subtopic_name # NoText

\* Step 5: upload_short returns a result, returns None (uploader not
\* configured, or the upload failed), or raises (the inner except takes it):
\* subtopic.lower() raises for a topic without subtopic, MediaFileUpload
\* raises when the file is missing
WfUpload ==
    /\ wpc = "upload"
    /\ \/ /\ Exists(fs, wf.video_path)
          /\ HasSubtopic(db, wf.topic_id)
          /\ wf' = [wf EXCEPT !.youtube_result = "yt", !.upload = "ok"]
          /\ results' = [results EXCEPT !.youtube_url = "yt"]
       \/ /\ \E how \in {"none", "raised"} :
                /\ \/ env.postFail
                   \/ /\ how = "raised"
                      /\ ~Exists(fs, wf.video_path) \/ ~HasSubtopic(db, wf.topic_id)
                /\ wf' = [wf EXCEPT !.youtube_result = None, !.upload = how]
          /\ UNCHANGED results
    /\ wpc' = "telegram"
    /\ UNCHANGED <<db, produced, createCalls, env, content, callVars, selected, dbAtStart, status>>
    /\ UNCHANGED videoVars

\* Step 6: yt_url is bound, then post_educational_content returns a message
\* id, returns None, or raises (the inner except takes it); skipped when no
\* poster is configured
WfTelegram ==
    /\ wpc = "telegram"
    /\ \/ /\ wf.telegram_poster
          /\ wf' = [wf EXCEPT !.telegram_message_id = "msg", !.telegram = "ok",
                              !.yt_url = wf.youtube_result]
          /\ results' = [results EXCEPT !.telegram_message_id = "msg"]
       \/ /\ wf.telegram_poster /\ env.postFail
          /\ \E how \in {"none", "raised"} :
                wf' = [wf EXCEPT !.telegram = how, !.yt_url = wf.youtube_result]
          /\ UNCHANGED results
       \/ /\ ~wf.telegram_poster
          /\ wf' = [wf EXCEPT !.telegram = "skipped"]
          /\ UNCHANGED results
    /\ wpc' = "db_case"
    /\ UNCHANGED <<db, produced, createCalls, env, content, callVars, selected, dbAtStart, status>>
    /\ UNCHANGED videoVars

\* Step 7: add_case
WfAddCase ==
    /\ wpc = "db_case"
    /\ \/ /\ db' = AddCase(db, CaseRow(wf.topic_id, wf.video_path, wf.youtube_result,
                                       wf.telegram_message_id))
          /\ wpc' = "db_mark"
          /\ UNCHANGED results
       \/ /\ env.dbFail
          /\ WfFail("database error")
          /\ UNCHANGED db
    /\ UNCHANGED <<wf, produced, createCalls, env, content, callVars, selected, dbAtStart, status>>
    /\ UNCHANGED videoVars

\* Step 7: mark_topic_as_used
WfMarkUsed ==
    /\ wpc = "db_mark"
    /\ \/ /\ db' = MarkTopicAsUsed(db, wf.topic_id)
          /\ wpc' = "db_state"
          /\ UNCHANGED results
       \/ /\ env.dbFail
          /\ WfFail("database error")
          /\ UNCHANGED db
    /\ UNCHANGED <<wf, produced, createCalls, env, content, callVars, selected, dbAtStart, status>>
    /\ UNCHANGED videoVars

\* Step 7: update_workflow_state, then results['success'] = True
WfUpdateState ==
    /\ wpc = "db_state"
    /\ \/ /\ db' = UpdateWorkflowState(db, wf.subject_id)
          /\ results' = [results EXCEPT !.success = TRUE]
          /\ selected' = Append(selected, wf.subject_id)
          /\ wpc' = "delete"
       \/ /\ env.dbFail
          /\ WfFail("database error")
          /\ UNCHANGED <<db, selected>>
    /\ UNCHANGED <<wf, produced, createCalls, env, content, callVars, dbAtStart, status>>
    /\ UNCHANGED videoVars

\* the deletion without the test of youtube_result
ShouldDeleteAlways(youtube_result, f, video_path) == Exists(f, video_path)

\* `if youtube_result and os.path.exists(video_path)`
ShouldDeleteVideo(youtube_result, f, video_path) ==
    youtube_result # None /\ Exists(f, video_path)

\* "Delete video after successful upload to save space"; os.remove may raise
\* (the inner except takes it); then the function returns results
WfDeleteVideo ==
    /\ wpc = "delete"
    /\ \/ /\ ShouldDeleteVideo(wf.youtube_result, fs, wf.video_path)
          /\ fs' = Remove(fs, {wf.video_path})
       \/ /\ ShouldDeleteVideo(wf.youtube_result, fs, wf.video_path)
          /\ env.removeFail
          /\ UNCHANGED fs
       \/ /\ ~ShouldDeleteVideo(wf.youtube_result, fs, wf.video_path)
          /\ UNCHANGED fs
    /\ wpc' = "end"
    /\ UNCHANGED <<gen, pc, topic, subtopic, output_path, slides, slide_videos,
                   listing, list_path, tmpCount, log, calls, raised, faults, run, ops>>
    /\ UNCHANGED <<results, wf, db, produced, createCalls, env, content, callVars, selected, dbAtStart, status>>

\* an exit status that ignores the results
ExitStatusZero(r) == 0

\* `0 if results['success'] else 1`
ExitStatus(r) == IF r.success THEN 0 ELSE 1

\* main(): run_daily_workflow has returned results; sys.exit(...)
MainExit ==
    /\ wpc = "end"
    /\ status = <<>>
    /\ status' = <<ExitStatus(results)>>
    /\ UNCHANGED <<wpc, results, wf, db, produced, createCalls, env, content, callVars,
                   selected, dbAtStart>>
    /\ UNCHANGED videoVars

-----------------------------------------------------------------------------
(* Specifications *)

EmptyFS == [p \in {} |-> AbsentFile]

\* durations the speech service may give a narration
VoiceLengths == {2, 20}

\* an environment in which every external tool of the pipeline may fail
HostileEnv ==
    [voice |-> VoiceLengths, ttsFail |-> TRUE, renderFail |-> TRUE,
     faults |-> MaxFaults, fonts |-> AllFontsUsable,
     contentFail |-> TRUE, dbFail |-> TRUE, removeFail |-> TRUE, postFail |-> TRUE]

\* an environment in which the speech service and the renderer may fail and
\* the encoder fails only on inputs it cannot read
WorkflowEnv ==
    [voice |-> {2}, ttsFail |-> TRUE, renderFail |-> TRUE,
     faults |-> 0, fonts |-> AllFontsUsable,
     contentFail |-> TRUE, dbFail |-> TRUE, removeFail |-> TRUE, postFail |-> TRUE]

\* the results dict as run_daily_workflow initialises it
NoResults ==
    [success |-> FALSE, video_path |-> NoPath, youtube_url |-> None,
     telegram_message_id |-> None, error |-> None]

\* locals of run_daily_workflow before Step 1; upload and telegram record how
\* Step 5 and Step 6 ended, yt_url the youtube_url handed to the Telegram post;
\* subjects and current_cycle are what the database method being run has read,
\* cycle_checked that check_and_start_new_cycle has returned
NoLocals(poster) ==
    [subject_id |-> 0, topic_id |-> 0, video_path |-> NoPath,
     youtube_result |-> None, telegram_message_id |-> None,
     telegram_poster |-> poster, upload |-> "pending", telegram |-> "pending",
     yt_url |-> None, subjects |-> {}, current_cycle |-> 0, cycle_checked |-> FALSE]

\* state of a process that has constructed a generator and not yet called it
InitPipeline ==
    /\ pc = "idle"
    /\ output_path = NoPath
    /\ slides = <<>>
    /\ slide_videos = <<>>
    /\ listing = <<>>
    /\ list_path = NoPath
    /\ fs = EmptyFS
    /\ tmpCount = 0
    /\ log = {}
    /\ calls = <<>>
    /\ raised = "none"
    /\ faults = 0
    /\ run = 1
    /\ ops = <<>>
    /\ other = NoOther

NoTopics == [t \in {} |-> TopicRow(0, <<>>, <<>>, 1, FALSE)]

InitNoWorkflow ==
    /\ wpc = "direct"
    /\ results = NoResults
    /\ wf = NoLocals(FALSE)
    /\ db = Database({}, NoTopics, <<>>, NoWorkflowState)
    /\ produced = AbsentFile
    /\ createCalls = 0
    /\ selected = <<>>
    /\ dbAtStart = db
    /\ status = <<>>

\* create_video called directly on any of the four generators
InitVideo ==
    /\ InitPipeline
    /\ InitNoWorkflow
    /\ gen \in Generators
    /\ topic = <<"a">>
    /\ subtopic = <<"7">>
    /\ env = HostileEnv
    /\ content = ContractLesson(40, 10)
    /\ arg = None
    /\ ret = NoReturn

NextVideo ==
    \/ PremiumStart
    \/ PremiumGenNarrated
    \/ PremiumGenTtsFails
    \/ PremiumGenSilent
    \/ PremiumGenRaises
    \/ PremiumEncode
    \/ PremiumConcat
    \/ PremiumCleanup
    \/ LiteStart
    \/ LiteGenSlide
    \/ LiteGenRaises
    \/ LiteOpenList
    \/ LiteEncode
    \/ LiteConcat
    \/ LiteCleanup
    \/ EnhancedStart
    \/ EnhancedGenSlide
    \/ EnhancedGenRaises
    \/ EnhancedOpenList
    \/ EnhancedEncode
    \/ EnhancedConcat
    \/ EnhancedCleanup
    \/ BaseStart
    \/ BaseGenSlide
    \/ BaseGenRaises
    \/ BaseRender
    \/ BaseCleanup

SpecVideo == InitVideo /\ [][NextVideo]_vars

\* databases the workflow may find: a fresh rotation; a subject whose cycle is
\* used up; no subject; a subject without topics
WorkflowDatabases ==
    LET t1 == TopicRow(1, <<"a">>, <<"7">>, 1, FALSE)
        t2 == TopicRow(2, <<"a">>, <<"a">>, 1, FALSE)
        t2used == TopicRow(2, <<"a">>, <<"a">>, 1, TRUE)
        at1 == WorkflowState(1, 1)
    IN { Database({1, 2}, (1 :> t1) @@ (2 :> t2), <<>>, NoWorkflowState),
         Database({1, 2}, (1 :> t1) @@ (2 :> t2used), <<>>, at1),
         Database({}, NoTopics, <<>>, NoWorkflowState),
         Database({1, 2}, (1 :> t1), <<>>, at1) }

\* the orchestrator as __init__ leaves it (main.py uses PremiumVideoGenerator),
\* before run_daily_workflow is called
InitWorkflow ==
    /\ InitPipeline
    /\ gen = "premium"
    /\ topic = <<>>
    /\ subtopic = <<>>
    /\ env = WorkflowEnv
    /\ content = NoContent
    /\ wpc = "start"
    /\ results = NoResults
    /\ \E poster \in BOOLEAN : wf = NoLocals(poster)
    /\ db \in WorkflowDatabases
    /\ produced = AbsentFile
    /\ createCalls = 0
    /\ selected = <<>>
    /\ dbAtStart = db
    /\ status = <<>>
    /\ arg = None
    /\ ret = NoReturn

NextWorkflow ==
    \/ WfGetNextSubjectForRotation
    \/ WfReadWorkflowState
    \/ WfSelectSubject
    \/ WfGetNextUnusedTopic
    \/ WfSelectTopic
    \/ WfCheckAndStartNewCycle
    \/ WfCountUnused
    \/ WfUpdateCycle
    \/ WfGenerateContent
    \/ WfCallCreateVideo
    \/ PremiumStart
    \/ PremiumGenNarrated
    \/ PremiumGenTtsFails
    \/ PremiumGenSilent
    \/ PremiumGenRaises
    \/ PremiumEncode
    \/ PremiumConcat
    \/ PremiumCleanup
    \/ WfVideoReturned
    \/ WfVideoRaised
    \/ WfUpload
    \/ WfTelegram
    \/ WfAddCase
    \/ WfMarkUsed
    \/ WfUpdateState
    \/ WfDeleteVideo
    \/ MainExit

SpecWorkflow == InitWorkflow /\ [][NextWorkflow]_vars

\* __init__ of a generator followed by the filename computation of
\* create_video, for every pair of short strings
Names == UNION {[1..n -> Chars] : n \in 0..MaxNameLen}

InitPath ==
    /\ InitPipeline
    /\ InitNoWorkflow
    /\ gen \in Generators
    /\ topic \in Names
    /\ subtopic \in Names
    /\ env = HostileEnv
    /\ content = ContractLesson(40, 10)
    /\ arg = None
    /\ ret = NoReturn

NextPath ==
    \/ PremiumStart
    \/ LiteStart
    \/ EnhancedStart
    \/ BaseStart

SpecPath == InitPath /\ [][NextPath]_vars

\* font installations: all usable; none installed; the first candidate not
\* loadable; the first missing and the second not loadable; only the bold
\* face missing; arial.ttf missing
FontInstallations ==
    { AllFontsUsable,
      [p \in FontFiles |-> "missing"],
      [AllFontsUsable EXCEPT !["DejaVuSans"] = "corrupt"],
      [AllFontsUsable EXCEPT !["DejaVuSans"] = "missing",
                             !["LiberationSans-Regular"] = "corrupt"],
      [AllFontsUsable EXCEPT !["DejaVuSans-Bold"] = "missing"],
      [AllFontsUsable EXCEPT !["arial"] = "missing"] }

\* lessons within the input contract, with short and long texts
ContractLessons == {ContractLesson(c, 10) : c \in {0, 40, 200}}

\* a list of n questions of q characters with the same options
QuestionsOf(n, q, options) == [j \in 1..n |-> Mcq(q, options)]

\* lessons the parser accepts whose questions lack option D, with questions of
\* one line and with questions of more lines than the MCQ slide has room for
ShortOfOptionLessons ==
    { Lesson(40, QuestionsOf(3, q, ThreeOptions(10)), QuestionsOf(2, q, ThreeOptions(10)),
             [k \in AnswerKeys |-> "B"], 8) : q \in {20, 2000} }

\* the lessons create_video is called with directly
RenderLessons == ContractLessons \cup ShortOfOptionLessons

\* an environment with the given fonts in which the speech service and the
\* renderer may fail and the encoder fails only on inputs it cannot read
RenderEnv(fonts) == [WorkflowEnv EXCEPT !.fonts = fonts]

\* create_video called directly, on any lesson of the contract or short of an
\* option, and any font installation
InitRender ==
    /\ InitPipeline
    /\ InitNoWorkflow
    /\ gen \in Generators
    /\ topic = <<"a">>
    /\ subtopic = <<"7">>
    /\ \E fonts \in FontInstallations : env = RenderEnv(fonts)
    /\ content \in RenderLessons
    /\ arg = None
    /\ ret = NoReturn

SpecRender == InitRender /\ [][NextVideo]_vars

\* a process in which no generator and no workflow runs
InitIdle ==
    /\ InitPipeline
    /\ InitNoWorkflow
    /\ gen = "premium"
    /\ topic = <<>>
    /\ subtopic = <<>>
    /\ env = WorkflowEnv
    /\ content = NoContent

\* the speech service and the renderer may fail; the encoder fails only on
\* inputs it cannot read
RunsEnv ==
    [voice |-> {2}, ttsFail |-> TRUE, renderFail |-> TRUE,
     faults |-> 0, fonts |-> AllFontsUsable,
     contentFail |-> FALSE, dbFail |-> FALSE, removeFail |-> FALSE,
     postFail |-> FALSE]

\* create_video called again after an earlier call ended: the working
\* directory and the temporary directory are as that call left them
CreateVideoAgain ==
    /\ pc \in {"returned", "raised"} /\ wpc = "direct"
    /\ run < MaxRuns
    /\ run' = run + 1
    /\ pc' = "idle"
    /\ output_path' = NoPath
    /\ slides' = <<>>
    /\ slide_videos' = <<>>
    /\ listing' = <<>>
    /\ list_path' = NoPath
    /\ log' = {}
    /\ calls' = <<>>
    /\ ops' = <<>>
    /\ raised' = "none"
    /\ UNCHANGED <<gen, topic, subtopic, fs, tmpCount, faults>>
    /\ UNCHANGED <<env, content, wfVars, callVars>>

\* create_video called MaxRuns times on one generator
InitRuns ==
    /\ InitPipeline
    /\ InitNoWorkflow
    /\ gen \in Generators
    /\ topic = <<"a">>
    /\ subtopic = <<"7">>
    /\ env = RunsEnv
    /\ content = ContractLesson(40, 10)
    /\ arg = None
    /\ ret = NoReturn

NextRuns == NextVideo \/ CreateVideoAgain

SpecRuns == InitRuns /\ [][NextRuns]_vars

\* content generation may fail; everything after it succeeds
RotationEnv ==
    [voice |-> {2}, ttsFail |-> FALSE, renderFail |-> FALSE,
     faults |-> 0, fonts |-> AllFontsUsable,
     contentFail |-> TRUE, dbFail |-> FALSE, removeFail |-> FALSE,
     postFail |-> FALSE]

\* databases with one topic for each subject: no workflow state; a recorded
\* subject in the middle; a recorded subject that is the last; a recorded
\* subject that no longer exists; one subject; no subject
RotationDatabases ==
    LET row(x) == TopicRow(x, <<"a">>, <<"7">>, 1, FALSE)
        topics(S) == [x \in S |-> row(x)]
    IN { Database({1, 2, 4}, topics({1, 2, 4}), <<>>, NoWorkflowState),
         Database({1, 2, 4}, topics({1, 2, 4}), <<>>, WorkflowState(2, 1)),
         Database({1, 2, 4}, topics({1, 2, 4}), <<>>, WorkflowState(4, 3)),
         Database({2, 4}, topics({2, 4}), <<>>, WorkflowState(3, 1)),
         Database({2}, topics({2}), <<>>, WorkflowState(2, 1)),
         Database({}, NoTopics, <<>>, NoWorkflowState) }

\* main.py run again after run_daily_workflow returned: a new orchestrator
\* over the database and the files the earlier runs left
WfRunAgain ==
    /\ wpc = "end"
    /\ run < MaxWorkflowRuns
    /\ run' = run + 1
    /\ wpc' = "start"
    /\ results' = NoResults
    /\ wf' = NoLocals(wf.telegram_poster)
    /\ produced' = AbsentFile
    /\ createCalls' = 0
    /\ content' = NoContent
    /\ pc' = "idle"
    /\ topic' = <<>>
    /\ subtopic' = <<>>
    /\ output_path' = NoPath
    /\ slides' = <<>>
    /\ slide_videos' = <<>>
    /\ listing' = <<>>
    /\ list_path' = NoPath
    /\ log' = {}
    /\ calls' = <<>>
    /\ ops' = <<>>
    /\ raised' = "none"
    /\ dbAtStart' = db
    /\ UNCHANGED status
    /\ UNCHANGED <<gen, fs, tmpCount, faults, db, selected, env, callVars>>

InitRotation ==
    /\ InitPipeline
    /\ gen = "premium"
    /\ topic = <<>>
    /\ subtopic = <<>>
    /\ env = RotationEnv
    /\ content = NoContent
    /\ wpc = "start"
    /\ results = NoResults
    /\ \E poster \in BOOLEAN : wf = NoLocals(poster)
    /\ db \in RotationDatabases
    /\ produced = AbsentFile
    /\ createCalls = 0
    /\ selected = <<>>
    /\ dbAtStart = db
    /\ status = <<>>
    /\ arg = None
    /\ ret = NoReturn

NextRotation ==
    \/ WfGetNextSubjectForRotation
    \/ WfReadWorkflowState
    \/ WfSelectSubject
    \/ WfGetNextUnusedTopic
    \/ WfSelectTopic
    \/ WfCheckAndStartNewCycle
    \/ WfCountUnused
    \/ WfUpdateCycle
    \/ WfGenerateContent
    \/ WfCallCreateVideo
    \/ PremiumStart
    \/ PremiumGenNarrated
    \/ PremiumGenSilent
    \/ PremiumGenRaises
    \/ PremiumEncode
    \/ PremiumConcat
    \/ PremiumCleanup
    \/ WfVideoReturned
    \/ WfVideoRaised
    \/ WfUpload
    \/ WfTelegram
    \/ WfAddCase
    \/ WfMarkUsed
    \/ WfUpdateState
    \/ WfDeleteVideo
    \/ WfRunAgain

SpecRotation == InitRotation /\ [][NextRotation]_vars

\* databases of subjects that have one unused topic of cycle 1 each and no
\* case yet: one subject; two subjects
CycleDatabases ==
    LET row(x) == TopicRow(x, <<"a">>, <<"7">>, 1, FALSE)
        topics(S) == [x \in S |-> row(x)]
    IN { Database({1}, topics({1}), <<>>, NoWorkflowState),
         Database({1, 2}, topics({1, 2}), <<>>, NoWorkflowState) }

\* repeated runs of main.py while add_topic adds topics of cycle 1
InitCycles ==
    /\ InitPipeline
    /\ gen = "premium"
    /\ topic = <<>>
    /\ subtopic = <<>>
    /\ env = RotationEnv
    /\ content = NoContent
    /\ wpc = "start"
    /\ results = NoResults
    /\ wf = NoLocals(FALSE)
    /\ db \in CycleDatabases
    /\ produced = AbsentFile
    /\ createCalls = 0
    /\ selected = <<>>
    /\ dbAtStart = db
    /\ status = <<>>
    /\ arg = None
    /\ ret = NoReturn

\* add_topic (the generate-topics command, the topic ingestion) is one INSERT
\* of another process: it commits between any two statements of the run, also
\* between the statements of one database method
NextCycles == NextRotation \/ OtherAddTopic

SpecCycles == InitCycles /\ [][NextCycles]_vars

\* the runs go on: a run that has started executes its statements to the end,
\* and main.py is started again as long as the bound on the runs allows
SpecCyclesFair == SpecCycles /\ WF_<<videoVars, wfVars, content>>(NextRotation)

\* the methods of MedicalDatabase called on the database initialize_database
\* creates
InitDatabase ==
    /\ InitIdle
    /\ arg = DbCall("initialize_database", None, None, db)
    /\ ret = Returned(None)

NextDatabase ==
    \/ DbAddSubject
    \/ DbAddTopic
    \/ DbGetNextUnusedTopic
    \/ DbSelectUnusedTopic
    \/ DbMarkTopicAsUsed
    \/ DbCheckAndStartNewCycle
    \/ DbCountUnused
    \/ DbUpdateCycle
    \/ DbCheckAndGenerateTopics
    \/ DbCountTopics
    \/ DbReceiveTopics
    \/ DbAddGeneratedTopic

SpecDatabase == InitDatabase /\ [][NextDatabase]_vars

\* add_subject, update_workflow_state, add_case and update_case_video_info
\* called on the database initialize_database creates
NextState ==
    \/ DbAddSubject
    \/ DbUpdateWorkflowState
    \/ DbAddCase
    \/ DbUpdateCaseVideoInfo

SpecState == InitDatabase /\ [][NextState]_vars

\* the statements another process commits
NextOther ==
    \/ OtherAddTopic
    \/ OtherMarkTopicAsUsed
    \/ OtherCheckAndStartNewCycle
    \/ OtherCountUnused
    \/ OtherUpdateCycle

\* the methods of MedicalDatabase called while another process writes to the
\* database between their statements
SpecShared == InitDatabase /\ [][NextDatabase \/ NextOther]_vars

\* runs of main.py while another process writes to the database between the
\* statements of the run
SpecSharedRuns == InitCycles /\ [][NextRotation \/ NextOther]_vars

\* _parse_ai_response called on a response
InitContent ==
    /\ InitIdle
    /\ arg \in AiResponses
    /\ ret = NoReturn

NextContent == ParseResponse

\* _wrap_text called on a text, a font and a width
InitWrap ==
    /\ InitIdle
    /\ arg \in WrapArgs
    /\ ret = NoReturn

NextWrap == WrapCall

\* an answer option drawn by a generator
InitOption ==
    /\ InitIdle
    /\ arg \in OptionArgs
    /\ ret = NoReturn

NextOption == DrawOptionCall

SpecOption == InitOption /\ [][NextOption]_vars

SpecWrap == InitWrap /\ [][NextWrap]_vars

SpecContent == InitContent /\ [][NextContent]_vars

-----------------------------------------------------------------------------
(* Properties *)

\* number of slides of the generator's template
NSlides(g) == IF g = "premium" THEN Len(PremiumTemplate) ELSE Len(LiteTemplate)

IsRender(o) == o.op = "render"

\* the render operations of the run, in order
RenderOps == SelectSeq(ops, IsRender)

\* C11: for every lesson of the contract, whatever the lengths of its texts,
\* the slides are built in template order (the j-th render is the render of
\* template slide j, and for the premium generator writes slideJ.png), never
\* more than the template has, and create_video goes on to encode only once
\* every slide of the template is built (6 premium, 4 lite and base).
C11_FixedSlideTemplate ==
    /\ Len(slides) <= NSlides(gen)
    /\ Len(RenderOps) = Len(slides)
    /\ \A j \in 1..Len(RenderOps) : RenderOps[j].slide = j
    /\ gen = "premium" => \A j \in 1..Len(slides) : slides[j].img = PremiumImg(j)
    /\ pc \in {"open", "encode", "concat", "cleanup", "returned"}
         => Len(slides) = NSlides(gen)

\* C11 witness: create_video has returned for a lesson with an empty and for
\* one with a long case text
C11_Witness ==
    /\ pc = "returned"
    /\ content.case_text \in {0, 200}
    /\ Len(slides) = NSlides(gen)

RECURSIVE FirstUsable(_, _)
\* the first candidate that can be loaded, "default" when there is none
FirstUsable(fonts, paths) ==
    IF paths = <<>> THEN "default"
    ELSE IF fonts[Head(paths)] = "usable" THEN Head(paths)
         ELSE FirstUsable(fonts, Tail(paths))

\* C17 (as claimed): font resolution never raises out of create_video; every
\* font a slide is drawn with is a loadable candidate or the built-in default;
\* the premium generator draws every element with the first loadable
\* candidate of its list, and with the default when none is loadable.
C17_FontFallback ==
    /\ raised # "font"
    /\ \A j \in 1..Len(RenderOps) :
         /\ \A f \in RenderOps[j].fonts : f = "default" \/ FontLoads(env.fonts, f)
         /\ gen = "premium"
              => RenderOps[j].fonts = {FirstUsable(env.fonts, PremiumFontPaths)}

\* the input contract of the pipeline: 3 case-based and 2 independent
\* questions, each with exactly the options A, B, C, D, and answers only for
\* existing questions, with labels the question has
SatisfiesContract(l) ==
    /\ Len(l.case_based_mcqs) = 3
    /\ Len(l.independent_mcqs) = 2
    /\ \A j \in 1..Len(l.case_based_mcqs) : DOMAIN l.case_based_mcqs[j].options = Labels
    /\ \A j \in 1..Len(l.independent_mcqs) : DOMAIN l.independent_mcqs[j].options = Labels
    /\ DOMAIN l.answers \subseteq AnswerKeys

\* C12 (as claimed): every record _parse_ai_response returns has exactly 3
\* case-based and 2 independent questions, each with exactly the four options
\* A, B, C, D, and every answer-key entry refers to an existing question; any
\* other response is rejected with an error.
C12_ContentValidated ==
    ret.done =>
        /\ ret.raised = None => SatisfiesContract(ret.value)
        /\ (arg.json /\ RequiredKeys \subseteq arg.keys /\ ~SatisfiesContract(arg.data))
              => ret.raised # None


IsEncode(c) == c.op = "encode"

IsConcat(c) == c.op = "concat"

EncodeCalls == SelectSeq(calls, IsEncode)

ConcatCalls == SelectSeq(calls, IsConcat)

AllCallsOk == \A j \in 1..Len(calls) : calls[j].ok

\* the file at the output path
OutFile == Read(fs, output_path)

RECURSIVE SumOutDur(_)
SumOutDur(cs) == IF cs = <<>> THEN 0 ELSE Head(cs).outDur + SumOutDur(Tail(cs))

\* summed duration of the segments of the run (for VideoGenerator: of the
\* clips handed to concatenate_videoclips)
SegmentTotal ==
    IF gen = "base" THEN calls[Len(calls)].dur ELSE SumOutDur(EncodeCalls)

\* slides of the template whose narration text is not empty
Narrated(g) ==
    IF g = "premium" THEN {i \in 1..Len(PremiumTemplate) : PremiumTemplate[i].narrated}
    ELSE 1..Len(LiteTemplate)

\* default duration of slide i
DefaultDuration(g, i) ==
    IF g = "premium" THEN PremiumTemplate[i].duration ELSE LiteDefaultDuration

RECURSIVE SumDefaults(_, _)
SumDefaults(g, n) == IF n = 0 THEN 0 ELSE DefaultDuration(g, n) + SumDefaults(g, n - 1)

TtsFailed(i) == \E e \in log : e.cause = "tts" /\ e.slide = i

\* C1 (as claimed): when create_video returns and every encoder invocation
\* succeeded, the output lasts the summed segment duration if that is at most
\* the cap of 59 s and exactly the cap otherwise; it is never longer than the cap.
C1_DurationCap ==
    (pc = "returned" /\ AllCallsOk /\ OutFile.k = "video")
        => /\ OutFile.dur = Min(SegmentTotal, DurationCap)
           /\ OutFile.dur <= DurationCap

\* C2 (as claimed): a failing narration synthesis never leaves the
\* slide-generation step or create_video as an exception: the only exceptions
\* that leave create_video come from rendering, from the encoder, or from an
\* external tool that cannot be started outside the narration branch; the
\* failure is logged; the slide is treated as having no audio: it keeps its
\* default duration, and the audio it carries, and the audio its encode is
\* given, is none or a silent track - never what the failed synthesis left at
\* the narration path; and a run that returns has generated every slide of
\* the template, invoked the encoder for every slide and concatenated.
C2_NarrationFailureAbsorbed ==
    /\ raised \in {"none", "render", "encoder", "spawn"}
    /\ pc = "raised" <=> raised # "none"
    /\ \A e \in log :
         e.cause = "tts" =>
            /\ e.slide <= Len(slides)
            /\ gen = "premium" =>
                  slides[e.slide].duration = DefaultDuration(gen, e.slide)
            /\ \/ slides[e.slide].audio = NoPath
               \/ Read(fs, slides[e.slide].audio).k = "silence"
    /\ \A j \in 1..Len(calls) :
         (calls[j].op = "encode" /\ TtsFailed(calls[j].slide)) =>
            (calls[j].audio = NoPath \/ calls[j].audioFile.k = "silence")
    /\ pc = "returned" =>
            /\ Len(slides) = NSlides(gen)
            /\ IF gen = "base"
               THEN Len(calls) = 1 /\ calls[1].op = "write"
               ELSE /\ Len(EncodeCalls) = NSlides(gen)
                    /\ Len(ConcatCalls) = 1

\* C3 (as claimed): whenever a segment is encoded, an audio file written for
\* that slide by this run is an input of the encode: the narration if it was
\* synthesized, else a silent track of the slide's default duration.
C3_EverySegmentHasAudio ==
    \A j \in 1..Len(calls) :
        calls[j].op = "encode" =>
            LET a == calls[j].audioFile
            IN /\ calls[j].audio # NoPath
               /\ IsAudio(a)
               /\ a.run = run /\ a.slide = calls[j].slide
               /\ (TtsFailed(calls[j].slide) =>
                      /\ a.k = "silence"
                      /\ a.dur = DefaultDuration(gen, calls[j].slide))

\* C4 (as claimed): when the narration synthesis failed for every narrated
\* slide and the environment failed no encoder invocation, create_video
\* returns with every segment encoded, the output file written, and the output
\* as long as the sum of the slides' default durations.
C4_AllNarrationFails ==
    (pc = "returned" /\ faults = 0 /\ \A i \in Narrated(gen) : TtsFailed(i))
        => /\ AllCallsOk
           /\ OutFile.k = "video"
           /\ OutFile.dur = SumDefaults(gen, NSlides(gen))

\* C5 (as claimed): if any encoder invocation of the run failed, create_video
\* does not return normally; and no slide is encoded twice.
C5_EncoderFailureFatal ==
    /\ pc = "returned" => AllCallsOk
    /\ \A j, m \in 1..Len(calls) :
         (calls[j].op = "encode" /\ calls[m].op = "encode" /\ j # m)
            => calls[j].slide # calls[m].slide

\* C7: whenever the concatenation is invoked, its list has exactly one entry
\* per slide of the template, entry N being the output path of the encode of
\* slide N, all entries different; and the clips of the output video are in
\* strictly increasing slide order.
C7_ConcatenationOrder ==
    /\ \A j \in 1..Len(calls) :
         calls[j].op = "concat" =>
            LET lst == calls[j].lst
            IN /\ Len(lst) = NSlides(gen)
               /\ \A n \in 1..Len(lst) :
                    /\ calls[n].op = "encode"
                    /\ calls[n].slide = n
                    /\ calls[n].out = lst[n]
               /\ \A n, m \in 1..Len(lst) : n # m => lst[n] # lst[m]
    /\ OutFile.k = "video" =>
         \A n, m \in 1..Len(OutFile.tl) :
            n < m => OutFile.tl[n].slide < OutFile.tl[m].slide

\* C7 witness: a concatenation has written a video holding every slide
C7_Witness ==
    /\ Len(ConcatCalls) = 1
    /\ OutFile.k = "video"
    /\ Len(OutFile.tl) = NSlides(gen)

\* C8 (as claimed): when create_video returns, every temporary file of the run
\* is deleted and only the output video is left.
C8_CleanupOnReturn == pc = "returned" => DOMAIN fs \subseteq {output_path}

\* C9 (as claimed): the default output filename is the .mp4 suffix after a
\* stem that holds only alphanumeric characters, spaces, hyphens and
\* underscores.
C9_OutputPathSanitized ==
    output_path # NoPath =>
        LET name == output_path.name
        IN /\ Len(name) >= 1
           /\ name[Len(name)] = ".mp4"
           /\ \A n \in 1..(Len(name) - 1) : IsSafeChar(name[n])

\* the video of the workflow run was completely produced: every slide's
\* segment encoded and the concatenation succeeded
VideoComplete ==
    /\ Len(EncodeCalls) = NSlides(gen)
    /\ Len(ConcatCalls) = 1
    /\ AllCallsOk

\* C6 (as claimed): results carry a video_path, a case row is stored, a topic
\* is marked used and success is reported only if the video of the run was
\* completely produced.
C6_NoPartialVideo ==
    /\ results.video_path # NoPath => VideoComplete
    /\ db.cases # <<>> => VideoComplete
    /\ results.success => VideoComplete

UploadFailed == wf.upload \in {"none", "raised"}

TelegramFailed == wf.telegram \in {"none", "raised"}

VideoUntouched == Read(fs, wf.video_path) = produced

\* the run came to its last step: the case is stored, the topic marked used
\* and the workflow state updated
DeletionReached == wpc = "end" /\ results.success

IsGenOp(o) == o.op \in {"render", "tts", "silence"}

\* the render and synthesis operations of the run, in order
GenOps == SelectSeq(ops, IsGenOp)

\* C13: the operations of a run happen one after the other in slide order:
\* slide j is rendered, then its narration synthesized (or its silence
\* generated), before slide j+1 is rendered; in the premium generator the
\* probe of slide j also precedes slide j+1; the j-th encoder call encodes
\* slide j, so every slide is encoded at most once and in order; and the
\* concatenation is invoked at most once, as the last call, after the encode
\* of the last slide.
C13_StrictSerialization ==
    /\ \A j \in 1..Len(GenOps) :
         /\ GenOps[j].slide = (j + 1) \div 2
         /\ (j % 2 = 1) <=> GenOps[j].op = "render"
    /\ gen = "premium" => \A j \in 1..(Len(ops) - 1) : ops[j].slide <= ops[j + 1].slide
    /\ \A j \in 1..Len(EncodeCalls) : EncodeCalls[j].slide = j
    /\ Len(ConcatCalls) <= 1
    /\ \A j \in 1..Len(calls) :
         calls[j].op = "concat"
            => /\ j = Len(calls)
               /\ Len(EncodeCalls) = NSlides(gen)
               /\ calls[j - 1].op = "encode" /\ calls[j - 1].slide = NSlides(gen)

\* C13 witness: a run that encoded every slide and concatenated has returned
C13_Witness ==
    /\ pc = "returned"
    /\ Len(ConcatCalls) = 1
    /\ Len(GenOps) = 2 * NSlides(gen)

IsProbe(o) == o.op = "probe"

\* the duration probes of the run, in order
ProbeOps == SelectSeq(ops, IsProbe)

\* the duration resolved for the segment of slide j: the premium generator
\* keeps it in the slide, the lite generator hands it to the encoder
ResolvedDuration(j) ==
    IF gen = "premium" THEN slides[j].duration ELSE EncodeCalls[j].dur

\* C14 (as claimed): for every slide whose narration was synthesized and
\* probed, the resolved segment duration is the probed duration plus the
\* trailing buffer when the probe succeeded, and the slide's default duration
\* when the probe failed.
C14_NarratedSegmentDuration ==
    gen \in {"premium", "lite"} =>
        \A j \in 1..Len(ProbeOps) :
            LET o == ProbeOps[j]
            IN ResolvedDuration(o.slide) =
                  IF o.ok THEN o.dur + PremiumBuffer ELSE DefaultDuration(gen, o.slide)

\* C15 (as claimed): every line _wrap_text returns is at most max_width wide,
\* also when a single word is wider than max_width; the lines joined by
\* single spaces are the words of the text joined by single spaces; and no
\* line is empty when the text has a word.
C15_WrapBound ==
    ret.done =>
        LET lines == ret.value
        IN /\ \A j \in 1..Len(lines) : GetLength(arg.font, lines[j]) <= arg.max_width
           /\ JoinSpace(lines) = JoinSpace(Split(arg.text))
           /\ Split(arg.text) # <<>> => \A j \in 1..Len(lines) : lines[j] # <<>>

\* the characters drawn for the option after its label
DrawnOptionText ==
    LET all == JoinSpace(ret.value)
        n == Len(OptionLabel(arg.gen, arg.key))
    IN SubSeq(all, n + 1, Len(all))

\* C16 (as claimed): in every generator an option that is drawn and is longer
\* than the budget is drawn as a prefix of it followed by the ellipsis, at most budget plus
\* ellipsis long, an option within the budget is drawn unchanged, and no
\* option longer than every budget plus the ellipsis is drawn in full.
C16_OptionTruncation ==
    (ret.done /\ ret.value # <<>>) =>
        LET t == arg.text
            d == DrawnOptionText
        IN /\ HasOptionBudget(arg.gen) =>
                IF Len(t) > OptionBudget(arg.gen)
                THEN /\ Len(d) <= OptionBudget(arg.gen) + Len(Ellipsis)
                     /\ \E n \in 0..Len(t) : d = SubSeq(t, 1, n) \o Ellipsis
                ELSE d = t
           /\ Len(t) > OptionBudget("lite") + Len(Ellipsis) => d # t

\* C18 (as claimed): the encode commands of one run are the same but for
\* their input paths, duration and output path, and each takes an image and
\* an audio input and encodes one video and one audio stream.
C18_UniformEncoding ==
    \A j, m \in 1..Len(EncodeCalls) :
        /\ EncodeCalls[j].cmd = EncodeCalls[m].cmd
        /\ EncodeCalls[j].cmd.inputs = <<"image", "audio">>
        /\ EncodeCalls[j].cmd.vcodec # None
        /\ EncodeCalls[j].cmd.acodec # None

\* the files at the paths ps that exist
FilesAt(f, ps) == {Read(f, q) : q \in {x \in ps : Exists(f, x)}}

\* the files an invocation reads
InputsOf(f, c) ==
    IF c.op = "encode" THEN FilesAt(f, {c.img, c.audio})
    ELSE IF c.op = "concat" THEN FilesAt(f, {c.lst[j] : j \in 1..Len(c.lst)})
    ELSE FilesAt(f, UNION {{slides[j].img, slides[j].audio} : j \in 1..Len(slides)})

\* C19 (as claimed): every file an encoder or concatenation invocation of a
\* run reads was written by that run.
C19_RunExclusiveArtifacts ==
    [][Len(calls') = Len(calls) + 1 =>
          \A x \in InputsOf(fs, calls'[Len(calls')]) : x.run = run]_vars

\* the subject after cur in ascending id order, the first after the last
FollowsInRotation(S, cur, nxt) ==
    /\ nxt \in S
    /\ \/ nxt > cur /\ ~\E x \in S : cur < x /\ x < nxt
       \/ nxt <= cur /\ (\A x \in S : x <= cur) /\ (\A x \in S : nxt <= x)

\* C20: get_next_subject_for_rotation returns None without subjects, the
\* lowest id when no state is recorded or the recorded subject is gone, and
\* else the subject after the recorded one, wrapping from the last to the
\* first; and any N consecutive successful runs over N subjects select each
\* subject exactly once.
C20_SubjectRotation ==
    LET S == db.subjects
        N == Cardinality(S)
        cur == db.state.current_subject_id
        nxt == GetNextSubjectForRotation(db)
    IN /\ S = {} => nxt = 0
       /\ (S # {} /\ (~db.state.present \/ cur \notin S)) =>
              nxt \in S /\ \A x \in S : nxt <= x
       /\ (db.state.present /\ cur \in S) => FollowsInRotation(S, cur, nxt)
       /\ \A j \in 1..Len(selected) :
              j + N - 1 <= Len(selected) =>
                  /\ {selected[m] : m \in j..(j + N - 1)} = S
                  /\ \A m, n \in j..(j + N - 1) : selected[m] = selected[n] => m = n

\* C20 witness: over three subjects a run has failed and three runs have
\* succeeded, the rotation having wrapped from the last subject to the first
C20_Witness ==
    /\ Cardinality(db.subjects) = 3
    /\ wpc = "end" /\ results.success
    /\ Len(selected) = 3 /\ run > Len(selected)
    /\ \E j \in 1..2 : selected[j] = 4 /\ selected[j + 1] = 1

\* C21: check_and_start_new_cycle starts a new cycle exactly when the subject
\* has no unused topic in its highest cycle; then every topic of the subject
\* is unused in the cycle after it, the other subjects' topics are as before
\* and it returns True; otherwise the database is as before and it returns
\* False.
C21_NewCycle ==
    (ret.done /\ arg.op = "check_and_start_new_cycle") =>
        LET b == arg.before
            subject == arg.p1
            mine == {t \in DOMAIN b.topics : b.topics[t].subject_id = subject}
            top == IF mine = {} THEN 1
                   ELSE SetMax({b.topics[t].cycle_number : t \in mine})
            exhausted == ~\E t \in mine :
                            b.topics[t].cycle_number = top /\ ~b.topics[t].used
        IN /\ ret.value = exhausted
           /\ DOMAIN db.topics = DOMAIN b.topics
           /\ \A t \in DOMAIN b.topics \ mine : db.topics[t] = b.topics[t]
           /\ exhausted =>
                \A t \in mine : /\ ~db.topics[t].used
                                /\ db.topics[t].cycle_number = top + 1
                                /\ db.topics[t].topic_name = b.topics[t].topic_name
                                /\ db.topics[t].subtopic_name = b.topics[t].subtopic_name
           /\ ~exhausted => db = b

\* C21 witness: a new cycle was started for a subject that has a topic, while
\* another subject has a used topic
C21_Witness ==
    /\ ret.done /\ arg.op = "check_and_start_new_cycle"
    /\ ret.value = TRUE
    /\ \E t, u \in DOMAIN db.topics :
         /\ db.topics[t].subject_id = arg.p1
         /\ db.topics[u].subject_id # arg.p1 /\ db.topics[u].used

\* C22 (as claimed): get_next_unused_topic returns the lowest-id unused topic
\* of the subject's current cycle, never a used topic, and returns None
\* exactly when the subject has no unused topic.
C22_NextUnusedTopic ==
    (ret.done /\ arg.op = "get_next_unused_topic") =>
        LET b == arg.before
            mine == {t \in DOMAIN b.topics : b.topics[t].subject_id = arg.p1}
            top == IF mine = {} THEN 1
                   ELSE SetMax({b.topics[t].cycle_number : t \in mine})
            unused == {t \in mine : ~b.topics[t].used}
            r == ret.value
        IN /\ r # 0 => /\ r \in unused
                       /\ b.topics[r].cycle_number = top
                       /\ \A t \in unused : b.topics[t].cycle_number = top => r <= t
           /\ r = 0 <=> unused = {}

\* C22 (amended): get_next_unused_topic returns the lowest-id topic of the
\* subject that is unused and in the subject's current cycle, never a used
\* topic, and returns None exactly when the subject has no unused topic in
\* its current cycle.
C22_NextUnusedInCycle ==
    (ret.done /\ arg.op = "get_next_unused_topic") =>
        LET b == arg.before
            mine == {t \in DOMAIN b.topics : b.topics[t].subject_id = arg.p1}
            top == IF mine = {} THEN 1
                   ELSE SetMax({b.topics[t].cycle_number : t \in mine})
            unused == {t \in mine : ~b.topics[t].used /\ b.topics[t].cycle_number = top}
            r == ret.value
        IN /\ r # 0 => r \in unused /\ \A t \in unused : r <= t
           /\ r = 0 <=> unused = {}
           /\ db = b

\* C22 witness: None is returned for a subject whose current cycle is used up
\* while a topic added after the cycle began is unused
C22_Witness ==
    /\ ret.done /\ arg.op = "get_next_unused_topic"
    /\ ret.value = 0
    /\ \E t, u \in DOMAIN db.topics :
         /\ db.topics[t].subject_id = arg.p1 /\ db.topics[u].subject_id = arg.p1
         /\ db.topics[t].used /\ db.topics[t].cycle_number > 1
         /\ ~db.topics[u].used /\ db.topics[u].cycle_number = 1

\* C23 (as claimed): add_subject with an existing name returns the id of the
\* existing subject and adds no row; add_topic with an existing (subject,
\* topic, subtopic) triple returns None and leaves the topics table as it was.
C23_IdempotentInserts ==
    LET b == arg.before
    IN /\ arg.op = "add_subject" =>
            \A x \in b.subjects :
                b.names[x] = arg.p1 => ret.value = x /\ db = b
       /\ arg.op = "add_topic" =>
            ((\E t \in DOMAIN b.topics :
                 /\ b.topics[t].subject_id = arg.p1
                 /\ b.topics[t].topic_name = <<"a">>
                 /\ b.topics[t].subtopic_name = arg.p2)
              => ret.value = 0 /\ db.topics = b.topics)

\* C24 (as claimed): check_and_generate_topics requests topics for a subject
\* exactly when the subject has fewer than min_topics topics, then requests
\* min_topics minus its number of topics, and gives no topic to a subject
\* that has min_topics topics or more, whatever its cycle.
C24_TopicReplenishment ==
    (ret.done /\ arg.op = "check_and_generate_topics") =>
        LET b == arg.before
            min_topics == arg.p1
            topicsOf(d, x) == {t \in DOMAIN d.topics : d.topics[t].subject_id = x}
        IN \A x \in b.subjects :
             LET n == Cardinality(topicsOf(b, x))
             IN /\ (n < min_topics) <=> (\E q \in ret.value : q.subject = x)
                /\ \A q \in ret.value : q.subject = x => q.count = min_topics - n
                /\ n >= min_topics => topicsOf(db, x) = topicsOf(b, x)

\* C25 (as claimed): when run_daily_workflow ends with success = False, the
\* cases, the topics and the workflow state are as the run found them.
C25_FailedRunLeavesBookkeeping ==
    (wpc = "end" /\ ~results.success) =>
        /\ db.cases = dbAtStart.cases
        /\ db.topics = dbAtStart.topics
        /\ db.state = dbAtStart.state

\* the case row the run stored, when the database steps of the run were taken
StoredCase == db.cases[Len(db.cases)]

\* C26: once the video has been created, whatever the outcome of the upload
\* and of the Telegram post (succeeded, returned nothing, raised, poster not
\* configured), a run in which no database step raises ends with success =
\* True, one more case row whose video_url / youtube_id / telegram_message_id
\* are null exactly for what failed, the topic marked used and the workflow
\* state advanced to the subject; and the post was given a YouTube URL exactly
\* when the upload succeeded.
C26_DistributionNonFatal ==
    (wpc = "end" /\ wf.video_path # NoPath /\ results.error # "database error") =>
        /\ results.success /\ results.error = None
        /\ wf.upload \in {"ok", "none", "raised"}
        /\ wf.telegram \in {"ok", "none", "raised", "skipped"}
        /\ wf.telegram = "skipped" <=> ~wf.telegram_poster
        /\ Len(db.cases) = Len(dbAtStart.cases) + 1
        /\ StoredCase.topic_id = wf.topic_id
        /\ StoredCase.video_path = wf.video_path
        /\ StoredCase.video_url # None <=> wf.upload = "ok"
        /\ StoredCase.youtube_id # None <=> wf.upload = "ok"
        /\ StoredCase.telegram_message_id # None <=> wf.telegram = "ok"
        /\ results.youtube_url # None <=> wf.upload = "ok"
        /\ results.telegram_message_id # None <=> wf.telegram = "ok"
        /\ db.topics[wf.topic_id].used
        /\ db.state.present /\ db.state.current_subject_id = wf.subject_id
        /\ db.state.total_runs =
              (IF dbAtStart.state.present THEN dbAtStart.state.total_runs ELSE 0) + 1
        /\ wf.telegram # "skipped" =>
              (wf.yt_url # None <=> wf.upload = "ok")

\* a run whose upload raised and whose post returned nothing, and that ended
\* with success = True
C26_Witness ==
    /\ wpc = "end" /\ results.success
    /\ wf.upload = "raised" /\ wf.telegram = "none"
    /\ StoredCase.video_url = None /\ StoredCase.telegram_message_id = None

\* the run is past the creation of the video
VideoStepDone == wpc \in {"upload", "telegram", "db_case", "db_mark", "db_state", "delete", "end"}

\* C27 (as claimed): the video file is deleted only when the upload of this
\* run succeeded and only after the case row has been stored, the topic
\* marked used and the workflow state updated; and a run that returned a video
\* path and whose upload failed or whose database step failed ends with the
\* video file at results['video_path'].
C27_VideoDeletionOrdering ==
    /\ (VideoStepDone /\ produced # AbsentFile /\ ~Exists(fs, wf.video_path)) =>
          /\ wf.upload = "ok"
          /\ results.success
          /\ Len(db.cases) = Len(dbAtStart.cases) + 1
          /\ db.topics[wf.topic_id].used
          /\ db.state.current_subject_id = wf.subject_id
    /\ (wpc = "end" /\ results.video_path # NoPath
            /\ (wf.upload # "ok" \/ results.error = "database error")) =>
          Exists(fs, results.video_path)

\* the run has returned its results record to main()
RunReturned == wpc = "end"

\* main() has called sys.exit
Exited == status # <<>>

\* C28: run_daily_workflow leaves only by returning results (every failure,
\* raised or detected, is recorded in results['error']); success = True
\* implies error is None and that the case is stored, the topic marked used
\* and the workflow state updated; error set implies the run has returned
\* with success = False; and main exits with 0 exactly when success is True.
C28_WorkflowResult ==
    /\ results.success =>
          /\ results.error = None
          /\ Len(db.cases) = Len(dbAtStart.cases) + 1
          /\ StoredCase.topic_id = wf.topic_id
          /\ db.topics[wf.topic_id].used
          /\ db.state.present /\ db.state.current_subject_id = wf.subject_id
          /\ db.state.total_runs =
                (IF dbAtStart.state.present THEN dbAtStart.state.total_runs ELSE 0) + 1
    /\ results.error # None => (~results.success /\ RunReturned)
    /\ RunReturned => (results.success \/ results.error # None)
    /\ Exited => RunReturned
    /\ Exited => (status = <<0>> <=> results.success)
    /\ Exited => status \in {<<0>>, <<1>>}

\* main has exited with 1 after a run whose database step raised
C28_Witness ==
    /\ Exited /\ status = <<1>>
    /\ results.error = "database error"
    /\ Len(db.cases) = Len(dbAtStart.cases) + 1

\* the number of case rows of the topic: the successful runs that selected it
Selections(d, t) == Cardinality({i \in 1..Len(d.cases) : d.cases[i].topic_id = t})

\* the step starts a new cycle of the subject
CycleCompletes(subject) ==
    /\ subject \in db.subjects
    /\ CurrentCycle(db', subject) > CurrentCycle(db, subject)

\* C29 (as claimed): when a cycle of a subject completes, every topic of that
\* subject has been selected in it.
C29_NoTopicStarves ==
    [][\A subject \in db.subjects :
          CycleCompletes(subject) =>
              \A t \in TopicsOf(db, subject) :
                  db.topics[t].used /\ Selections(db, t) >= 1]_vars

\* the topics the database started with (CycleDatabases give subject x the
\* topic x; add_topic gives later ids)
StartedWith(d) == DOMAIN d.topics \cap d.subjects

\* the topic carries the number of the subject's current cycle
InCurrentCycle(d, t) ==
    d.topics[t].cycle_number = CurrentCycle(d, d.topics[t].subject_id)

UsedCount(d, t) == IF d.topics[t].used THEN 1 ELSE 0

\* the unused topics of the subject's current cycle: what the runs of the
\* subject select next, lowest id first
WaitingTopics(d, subject) == UnusedInCycle(d, subject, CurrentCycle(d, subject))

\* the number of runs of its subject after which topic t has been selected: a
\* waiting topic follows the waiting topics of lower id; any other topic
\* follows the waiting topics and, in the next cycle, the topics of lower id
TurnsNeeded(d, t) ==
    LET subject == d.topics[t].subject_id
        waiting == WaitingTopics(d, subject)
    IN IF t \in waiting
       THEN Cardinality({u \in waiting : u <= t})
       ELSE Cardinality(waiting) + Cardinality({u \in TopicsOf(d, subject) : u <= t})

\* the runs the bound on the runs still allows, the one that is starting included
RunsLeft == MaxWorkflowRuns - run + 1

\* a run is starting, and the runs left give the subject of topic t the turns
\* the topic needs (the rotation gives each subject one run in every
\* Cardinality(db.subjects) successful runs)
Awaits(t) ==
    /\ wpc = "start"
    /\ t \in DOMAIN db.topics
    /\ Cardinality(db.subjects) * TurnsNeeded(db, t) <= RunsLeft

\* every run of the behaviour succeeds
AllRunsSucceed == [](wpc = "end" => results.success)

\* C29 (amended): under repeated successful runs every topic is eventually
\* selected (checked for every topic for which the bound on the runs leaves
\* the runs it needs).  A run selects only a topic that is unused in its
\* subject's current cycle; a topic is marked used only by the run that
\* selected it and stays used until the subject's next cycle starts; the next
\* cycle is started only by the UPDATE of a check_and_start_new_cycle whose
\* count found every topic of the current cycle used and selected; so a topic
\* that carried the cycle's number at that count has been selected exactly
\* once in the completed cycle, and a topic the subject had from the start
\* exactly once in every completed cycle.  A topic added with cycle_number 1
\* after its subject moved on, or committed between that count and the
\* UPDATE, stays unused and unselected until the UPDATE takes it into the
\* next cycle with every other topic of the subject.
C29_NoTopicStarvesInCycle ==
    /\ [](\A t \in DOMAIN db.topics :
            /\ db.topics[t].cycle_number <= CurrentCycle(db, db.topics[t].subject_id)
            /\ ~InCurrentCycle(db, t) =>
                  (~db.topics[t].used /\ Selections(db, t) = 0)
            /\ db.topics[t].used => Selections(db, t) >= 1
            /\ (wpc # "db_mark" /\ InCurrentCycle(db, t)) =>
                  /\ Selections(db, t) <= db.topics[t].cycle_number - 1 + UsedCount(db, t)
                  /\ t \in StartedWith(db) =>
                        Selections(db, t) = db.topics[t].cycle_number - 1 + UsedCount(db, t))
    /\ [][/\ (wpc = "count" /\ wpc' = "update") =>
                \A t \in TopicsOf(db, wf.subject_id) :
                    InCurrentCycle(db, t) =>
                        (db.topics[t].used /\ Selections(db, t) >= 1)
          /\ \A subject \in db.subjects :
                CycleCompletes(subject) =>
                    /\ wpc = "update" /\ wf.subject_id = subject
                    /\ CurrentCycle(db', subject) = CurrentCycle(db, subject) + 1
                    /\ \A t \in TopicsOf(db, subject) :
                          db.topics[t].used \/ Selections(db, t) = 0
                    /\ \A t \in TopicsOf(db', subject) :
                          InCurrentCycle(db', t) /\ ~db'.topics[t].used
          /\ \A t \in DOMAIN db.topics :
                /\ t \in DOMAIN db'.topics
                /\ (db.topics[t].used /\ ~db'.topics[t].used) =>
                      CycleCompletes(db.topics[t].subject_id)
                /\ (~db.topics[t].used /\ db'.topics[t].used) =>
                      /\ wpc = "db_mark" /\ wf.topic_id = t
                      /\ db.cases[Len(db.cases)].topic_id = t
                /\ Selections(db', t) > Selections(db, t) =>
                      /\ Selections(db', t) = Selections(db, t) + 1
                      /\ InCurrentCycle(db, t) /\ ~db.topics[t].used
          /\ Len(db'.cases) > Len(db.cases) =>
                /\ Len(db'.cases) = Len(db.cases) + 1
                /\ db'.cases[Len(db'.cases)].topic_id \in DOMAIN db.topics]_vars
    /\ AllRunsSucceed =>
          \A t \in 1..MaxTopics :
              Awaits(t) ~> (t \in DOMAIN db.topics /\ Selections(db, t) >= 1)

\* a topic added while its subject was in cycle 2 has been selected in
\* cycle 3, after three selections of the subject's first topic
C29_Witness ==
    /\ db.subjects = {1} /\ DOMAIN db.topics = {1, 2}
    /\ Selections(db, 1) = 3 /\ Selections(db, 2) = 1
    /\ db.topics[2].cycle_number = 3 /\ db.topics[2].used

\* C30: the workflow_state table is empty or holds the one row of id 1; each
\* update_workflow_state(subject) sets current_subject_id to the subject and
\* raises total_runs by exactly 1, creating the row with total_runs = 1 on the
\* first call; nothing else changes the table; so total_runs is the number of
\* completed updates.
C30_RunCounter ==
    /\ [](/\ db.state.present <=> selected # <<>>
          /\ ~db.state.present => db.state = NoWorkflowState
          /\ db.state.present =>
                /\ db.state.total_runs = Len(selected)
                /\ db.state.current_subject_id = selected[Len(selected)])
    /\ [][/\ db'.state # db.state <=> selected' # selected
          /\ db'.state # db.state =>
                \E subject \in db.subjects :
                    /\ selected' = Append(selected, subject)
                    /\ db'.state.present
                    /\ db'.state.current_subject_id = subject
                    /\ db'.state.total_runs =
                          IF db.state.present THEN db.state.total_runs + 1 ELSE 1
          /\ arg'.op = "update_workflow_state" /\ arg' # arg =>
                /\ arg'.before = db
                /\ db'.state # db.state
                /\ db'.state.current_subject_id = arg'.p1
                /\ [db' EXCEPT !.state = db.state] = db]_vars

\* three updates for two subjects have completed
C30_Witness ==
    /\ arg.op = "update_workflow_state"
    /\ db.state.total_runs = 3
    /\ selected = <<1, 2, 2>>
    /\ db.state.current_subject_id = 2

====
